---- MODULE Spec2Model ----
(***************************************************************************)
(* A model of coffio: the IKM list, the canonicalizer, the storage codec,  *)
(* the encrypt / decrypt pipeline and the decryption policy.               *)
(*                                                                         *)
(* Representation.  A Rust String or Vec<u8> is a sequence of bytes        *)
(* (0..255); text is the sequence of its ASCII codes, so that              *)
(* `str::as_bytes` is the identity as it is in Rust.  A SystemTime is an   *)
(* integer count of ticks since the Unix epoch (negative before it), with  *)
(* TicksPerSec ticks in a second.  A Result is a record                    *)
(* [ok |-> TRUE, val |-> v] or [ok |-> FALSE, kind |-> k, args |-> a]      *)
(* where k is the name of the variant of Error and a its fields as a       *)
(* sequence of integers.                                                   *)
(***************************************************************************)
EXTENDS Integers, Sequences, FiniteSets, TLC

(***************************************************************************)
(* Bounds of the model.                                                    *)
(***************************************************************************)
\* Sub-second resolution of SystemTime (the real one is 10^9).
TicksPerSec == 2
\* The clock of the model stops at this number of ticks.
MaxNow == 2
\* Width in bits of CounterId / IkmId in the model (u32 in the source): the
\* wrap-around arithmetic is kept, the width is scaled so that TLC can store
\* the values and reach the wrap.
CounterBits == 2
\* Largest number of records kept in a list by the management operations.
MaxIkms == 2
\* Largest number of encryptions of a behaviour.
MaxEnc == 1
\* Largest number of IKMs a behaviour adds.
MaxDraws == 4
\* Largest number of draws after which a program that encrypts adds an IKM.
MaxRotations == 2
\* Largest number of strings of a sequence given to canonicalize.
MaxElems == 2
\* DEFAULT_IKM_DURATION in seconds, scaled.
MaxParts == 4

MaxRecords == 2

IkmDurationSecs == 1
\* DEFAULT_KEY_CTX_PERIODICITY in seconds, scaled.
KeyCtxPeriodSecs == 1

\* ------------------------------------------------------------------------
\* Results (src/error.rs)
\* ------------------------------------------------------------------------
Ok(v) == [ok |-> TRUE, val |-> v]

Err(k, a) == [ok |-> FALSE, kind |-> k, args |-> a]

IsErr(r, k) == ~r.ok /\ r.kind = k

\* The record of a call: the function, what it was given and what it returned.
Returned(op, arg, ret) == [op |-> op, arg |-> arg, ret |-> ret]

\* ------------------------------------------------------------------------
\* Integers of fixed width, little endian (to_le_bytes / from_le_bytes)
\* ------------------------------------------------------------------------
RECURSIVE ToLeBytes(_, _)
ToLeBytes(n, width) ==
    IF width = 0 THEN << >>
    ELSE << n % 256 >> \o ToLeBytes(n \div 256, width - 1)

RECURSIVE FromLeBytes(_)
FromLeBytes(b) ==
    IF b = << >> THEN 0
    ELSE b[1] + 256 * FromLeBytes(Tail(b))

\* ------------------------------------------------------------------------
\* Base64UrlUnpadded (base64ct), as used by canonicalization.rs and storage.rs
\* ------------------------------------------------------------------------
\* The character of a 6-bit value: A-Z a-z 0-9 - _
B64Char(i) ==
    IF i < 26 THEN 65 + i
    ELSE IF i < 52 THEN 97 + (i - 26)
    ELSE IF i < 62 THEN 48 + (i - 52)
    ELSE IF i = 62 THEN 45
    ELSE 95

IsB64Char(c) ==
    \/ c >= 65 /\ c <= 90
    \/ c >= 97 /\ c <= 122
    \/ c >= 48 /\ c <= 57
    \/ c = 45
    \/ c = 95

\* The 6-bit value of a character of the alphabet.
B64Value(c) ==
    IF c >= 65 /\ c <= 90 THEN c - 65
    ELSE IF c >= 97 /\ c <= 122 THEN c - 97 + 26
    ELSE IF c >= 48 /\ c <= 57 THEN c - 48 + 52
    ELSE IF c = 45 THEN 62
    ELSE 63

\* encode_string: every block of three bytes gives four characters, and a last
\* block of one or two bytes, filled with zero bits, gives two or three.
B64Encode(b) ==
    LET n == Len(b)
        Blocks == [g \in 0..((n - 1) \div 3) |->
                     b[3 * g + 1] * 65536
                     + (IF 3 * g + 2 <= n THEN b[3 * g + 2] * 256 ELSE 0)
                     + (IF 3 * g + 3 <= n THEN b[3 * g + 3] ELSE 0)]
        Shift == << 262144, 4096, 64, 1 >>
    IN  [j \in 1..((n * 4 + 2) \div 3) |->
            B64Char((Blocks[(j - 1) \div 4] \div Shift[((j - 1) % 4) + 1]) % 64)]

\* The bytes of a text made of alphabet characters only, trailing bits dropped.
B64Bytes(s) ==
    LET n == Len(s)
        Blocks == [g \in 0..((n - 1) \div 4) |->
                     B64Value(s[4 * g + 1]) * 262144
                     + (IF 4 * g + 2 <= n THEN B64Value(s[4 * g + 2]) * 4096 ELSE 0)
                     + (IF 4 * g + 3 <= n THEN B64Value(s[4 * g + 3]) * 64 ELSE 0)
                     + (IF 4 * g + 4 <= n THEN B64Value(s[4 * g + 4]) ELSE 0)]
        Shift == << 65536, 256, 1 >>
    IN  [j \in 1..((n * 3) \div 4) |->
            (Blocks[(j - 1) \div 3] \div Shift[((j - 1) % 3) + 1]) % 256]

\* decode_vec: rejects a character outside the alphabet, a length of 1 modulo 4
\* and a last block that does not encode back to itself.
B64Decode(s) ==
    IF \E i \in 1..Len(s) : ~IsB64Char(s[i])
        THEN Err("ParsingBase64Error", << >>)
    ELSE IF Len(s) % 4 = 1 THEN Err("ParsingBase64Error", << >>)
    ELSE LET bytes == B64Bytes(s)
         IN  IF B64Encode(bytes) # s THEN Err("ParsingBase64Error", << >>)
             ELSE Ok(bytes)

\* storage.rs encode_data / decode_data
encode_data(data) == B64Encode(data)

\* A decoding that keeps a last block with bits beyond its bytes.
decode_data_lax(s) ==
    IF \E i \in 1..Len(s) : ~IsB64Char(s[i])
        THEN Err("ParsingBase64Error", << >>)
    ELSE IF Len(s) % 4 = 1 THEN Err("ParsingBase64Error", << >>)
    ELSE Ok(B64Bytes(s))

decode_data(s) == B64Decode(s)

\* ------------------------------------------------------------------------
\* canonicalization.rs
\* ------------------------------------------------------------------------
CANONICALIZATION_SEPARATOR == << 58 >>

RECURSIVE JoinSep(_)
JoinSep(elems) ==
    IF Len(elems) = 0 THEN << >>
    ELSE IF Len(elems) = 1 THEN elems[1]
    ELSE elems[1] \o CANONICALIZATION_SEPARATOR \o JoinSep(Tail(elems))

join_canonicalized_str(elems) == JoinSep(elems)

canonicalize(context) ==
    IF Len(context) = 0 THEN << >>
    ELSE IF Len(context) = 1 THEN B64Encode(context[1])
    ELSE JoinSep([i \in 1..Len(context) |-> B64Encode(context[i])])

\* ------------------------------------------------------------------------
\* Option<T>: None is the empty sequence, Some(v) the sequence of v alone
\* ------------------------------------------------------------------------
None == << >>

Some(v) == << v >>

IsSome(o) == Len(o) = 1

\* ------------------------------------------------------------------------
\* SystemTime
\* ------------------------------------------------------------------------
UNIX_EPOCH == 0

\* Duration::from_secs
from_secs(s) == s * TicksPerSec

\* t.duration_since(UNIX_EPOCH)?.as_secs(): an error for an instant before
\* the epoch, the whole seconds otherwise.
SecsSinceEpoch(t) ==
    IF t < UNIX_EPOCH THEN Err("SystemTimeError", << >>)
    ELSE Ok(t \div TicksPerSec)

\* ------------------------------------------------------------------------
\* lib.rs
\* ------------------------------------------------------------------------
DEFAULT_IKM_DURATION == IkmDurationSecs

DEFAULT_KEY_CTX_PERIODICITY == KeyCtxPeriodSecs

\* ------------------------------------------------------------------------
\* scheme.rs
\* ------------------------------------------------------------------------
XChaCha20Poly1305WithBlake3 == 1

Aes128GcmWithSha256 == 2

Schemes == { XChaCha20Poly1305WithBlake3, Aes128GcmWithSha256 }

DEFAULT_SCHEME == XChaCha20Poly1305WithBlake3

get_ikm_size(scheme) == IF scheme = XChaCha20Poly1305WithBlake3 THEN 32 ELSE 32

\* TryFrom<SchemeSerializeType> for Scheme
SchemeTryFrom(value) ==
    IF value \in Schemes THEN Ok(value)
    ELSE Err("ParsingSchemeUnknownScheme", << value >>)

\* scheme/xchacha20poly1305.rs and scheme/aes.rs: NONCE_SIZE
XCHACHA_NONCE_SIZE == 24

AES_NONCE_SIZE == 12

NonceSize(scheme) ==
    IF scheme = XChaCha20Poly1305WithBlake3 THEN XCHACHA_NONCE_SIZE
    ELSE AES_NONCE_SIZE

\* ------------------------------------------------------------------------
\* The OS random source (getrandom).  Random bytes are fresh: the k-th
\* successful draw of a behaviour returns bytes that no other draw returns
\* and that no imported text holds.  A draw may fail.  rng is the state of
\* the source at a call: [ok |-> whether the draw succeeds, k |-> the number
\* of draws that have succeeded].
\* ------------------------------------------------------------------------
RandomBytes(k, len) == [i \in 1..len |-> k]

getrandom(rng, len) ==
    IF rng.ok THEN Ok(RandomBytes(rng.k + 1, len))
    ELSE Err("RandomSourceError", << >>)

\* xchacha20poly1305_gen_nonce / aes128gcm_gen_nonce
gen_nonce(scheme, rng) == getrandom(rng, NonceSize(scheme))

\* ------------------------------------------------------------------------
\* ikm.rs: InputKeyMaterial
\* ------------------------------------------------------------------------
IKM_BASE_STRUCT_SIZE == 25

\* CounterId = IkmId = u32; the model's width is CounterBits.
CounterModulus == 2 ^ CounterBits

InputKeyMaterial(id, scheme, content, not_before, not_after, is_revoked) ==
    [id |-> id, scheme |-> scheme, content |-> content,
     not_before |-> not_before, not_after |-> not_after,
     is_revoked |-> is_revoked]

\* InputKeyMaterial::as_bytes
as_bytes(ikm) ==
    LET nb == SecsSinceEpoch(ikm.not_before)
        na == SecsSinceEpoch(ikm.not_after)
    IN  IF ~nb.ok THEN nb
        ELSE IF ~na.ok THEN na
        ELSE Ok(ToLeBytes(ikm.id, 4) \o ToLeBytes(ikm.scheme, 4) \o ikm.content
                \o ToLeBytes(nb.val, 8) \o ToLeBytes(na.val, 8)
                \o << IF ikm.is_revoked THEN 1 ELSE 0 >>)

\* InputKeyMaterial::bytes_to_system_time: checked_add never overflows on the
\* timestamps of the model.
\* A bytes_to_system_time that takes every timestamp.
bytes_to_system_time_unchecked(ts_slice) ==
    Ok(UNIX_EPOCH + from_secs(FromLeBytes(SubSeq(ts_slice, 1, 4))))

\* InputKeyMaterial::bytes_to_system_time.  checked_add fails when the seconds
\* are beyond those of an i64, i.e. when the top bit of the eighth byte is
\* set; the error carries the timestamp, kept here as its eight bytes.
bytes_to_system_time(ts_slice) ==
    IF ts_slice[8] >= 128 THEN Err("SystemTimeReprError", ts_slice)
    ELSE Ok(UNIX_EPOCH + from_secs(FromLeBytes(ts_slice)))

\* InputKeyMaterial::from_bytes
from_bytes(b) ==
    IF Len(b) < IKM_BASE_STRUCT_SIZE
        THEN Err("ParsingEncodedDataInvalidIkmLen", << Len(b) >>)
    ELSE
        LET scheme == SchemeTryFrom(FromLeBytes(SubSeq(b, 5, 8)))
        IN  IF ~scheme.ok THEN scheme
            ELSE
                LET is == get_ikm_size(scheme.val)
                IN  IF Len(b) # IKM_BASE_STRUCT_SIZE + is
                        THEN Err("ParsingEncodedDataInvalidIkmLen", << Len(b) >>)
                    ELSE
                        LET nb == bytes_to_system_time(SubSeq(b, 8 + is + 1, 8 + is + 8))
                            na == bytes_to_system_time(SubSeq(b, 8 + is + 8 + 1, 8 + is + 16))
                        IN  IF ~nb.ok THEN nb
                            ELSE IF ~na.ok THEN na
                            ELSE Ok(InputKeyMaterial(
                                    FromLeBytes(SubSeq(b, 1, 4)),
                                    scheme.val,
                                    SubSeq(b, 9, 8 + is),
                                    nb.val, na.val,
                                    b[8 + is + 16 + 1] # 0))

\* ------------------------------------------------------------------------
\* ikm.rs: InputKeyMaterialList.  A list is [ikm_lst, id_counter]; an
\* operation that takes &mut self returns [lst |-> the list after, ret |-> its
\* Result]; "panic" is the abort of a debug build on arithmetic overflow.
\* ------------------------------------------------------------------------
InputKeyMaterialList(lst, counter) ==
    [ikm_lst |-> lst, id_counter |-> counter]

\* InputKeyMaterialList::new
new == InputKeyMaterialList(<< >>, 0)

\* `self.id_counter += 1` on a u32: wraps in a release build, panics in a
\* debug build (overflow_checks).
CounterIncrement(counter, overflow_checks) ==
    IF counter + 1 < CounterModulus THEN Ok(counter + 1)
    ELSE IF overflow_checks THEN Err("panic", << >>)
    ELSE Ok((counter + 1) % CounterModulus)

\* An add_custom_ikm that takes the id before it draws the seed.
add_custom_ikm_counted(self, scheme, not_before, not_after, rng, overflow_checks) ==
    LET random == getrandom(rng, get_ikm_size(scheme))
        inc == CounterIncrement(self.id_counter, overflow_checks)
    IN  IF ~inc.ok THEN [lst |-> self, ret |-> inc]
        ELSE IF ~random.ok
            THEN [lst |-> InputKeyMaterialList(self.ikm_lst, inc.val),
                  ret |-> random]
        ELSE [lst |-> InputKeyMaterialList(
                        Append(self.ikm_lst,
                               InputKeyMaterial(inc.val, scheme, random.val,
                                                not_before, not_after, FALSE)),
                        inc.val),
              ret |-> Ok(inc.val)]

\* InputKeyMaterialList::add_custom_ikm
add_custom_ikm(self, scheme, not_before, not_after, rng, overflow_checks) ==
    LET random == getrandom(rng, get_ikm_size(scheme))
        inc == CounterIncrement(self.id_counter, overflow_checks)
    IN  IF ~random.ok THEN [lst |-> self, ret |-> random]
        ELSE IF ~inc.ok THEN [lst |-> self, ret |-> inc]
            ELSE [lst |-> InputKeyMaterialList(
                            Append(self.ikm_lst,
                                   InputKeyMaterial(inc.val, scheme, random.val,
                                                    not_before, not_after, FALSE)),
                            inc.val),
                  ret |-> Ok(inc.val)]

\* InputKeyMaterialList::add_ikm
add_ikm(self, time_now, rng, overflow_checks) ==
    add_custom_ikm(self, DEFAULT_SCHEME, time_now,
                   time_now + from_secs(DEFAULT_IKM_DURATION),
                   rng, overflow_checks)

\* InputKeyMaterialList::delete_ikm
\* A delete_ikm that gives the counter back.
delete_ikm_decrement(self, id) ==
    LET kept == SelectSeq(self.ikm_lst, LAMBDA ikm : ikm.id # id)
    IN  IF Len(kept) = Len(self.ikm_lst)
            THEN [lst |-> InputKeyMaterialList(kept, self.id_counter),
                  ret |-> Err("IkmNotFound", << id >>)]
        ELSE [lst |-> InputKeyMaterialList(kept, self.id_counter - 1),
              ret |-> Ok(id)]

delete_ikm(self, id) ==
    LET kept == SelectSeq(self.ikm_lst, LAMBDA ikm : ikm.id # id)
    IN  IF Len(kept) = Len(self.ikm_lst)
            THEN [lst |-> InputKeyMaterialList(kept, self.id_counter),
                  ret |-> Err("IkmNotFound", << id >>)]
        ELSE [lst |-> InputKeyMaterialList(kept, self.id_counter),
              ret |-> Ok(id)]

\* Iterator::find over the indices where the predicate holds: the first of
\* them, 0 if there is none.
FindFirst(hits) ==
    IF hits = { } THEN 0
    ELSE CHOOSE i \in hits : \A j \in hits : i <= j

\* Iterator::rev().find over the indices where the predicate holds: the last
\* of them, 0 if there is none.
FindLast(hits) ==
    IF hits = { } THEN 0
    ELSE CHOOSE i \in hits : \A j \in hits : j <= i

\* A revoke_ikm that revokes every record once the id is found.
revoke_ikm_every(self, id) ==
    IF \A k \in 1..Len(self.ikm_lst) : self.ikm_lst[k].id # id
        THEN [lst |-> self, ret |-> Err("IkmNotFound", << id >>)]
    ELSE [lst |-> InputKeyMaterialList(
                    [k \in 1..Len(self.ikm_lst) |->
                        [self.ikm_lst[k] EXCEPT !.is_revoked = TRUE]],
                    self.id_counter),
          ret |-> Ok(id)]

\* InputKeyMaterialList::revoke_ikm
revoke_ikm(self, id) ==
    LET i == FindFirst({ k \in 1..Len(self.ikm_lst) : self.ikm_lst[k].id = id })
    IN  IF i = 0 THEN [lst |-> self, ret |-> Err("IkmNotFound", << id >>)]
        ELSE [lst |-> InputKeyMaterialList(
                        [self.ikm_lst EXCEPT ![i].is_revoked = TRUE],
                        self.id_counter),
              ret |-> Ok(id)]

\* The predicate with the bounds of the window included.
IsUsableAtClosed(ikm, encryption_time) ==
    /\ ~ikm.is_revoked
    /\ ikm.not_before <= encryption_time
    /\ ikm.not_after >= encryption_time

\* The predicate without the revocation flag.
IsUsableAtRevoked(ikm, encryption_time) ==
    /\ ikm.not_before < encryption_time
    /\ ikm.not_after > encryption_time

\* The predicate of get_latest_ikm's find.
IsUsableAt(ikm, encryption_time) ==
    /\ ~ikm.is_revoked
    /\ ikm.not_before < encryption_time
    /\ ikm.not_after > encryption_time

\* InputKeyMaterialList::get_latest_ikm
get_latest_ikm(self, encryption_time) ==
    LET i == FindLast({ k \in 1..Len(self.ikm_lst) :
                          IsUsableAt(self.ikm_lst[k], encryption_time) })
    IN  IF i = 0 THEN Err("IkmNoneAvailable", << >>)
        ELSE Ok(self.ikm_lst[i])

\* InputKeyMaterialList::get_ikm_by_id
get_ikm_by_id(self, id) ==
    LET i == FindFirst({ k \in 1..Len(self.ikm_lst) : self.ikm_lst[k].id = id })
    IN  IF i = 0 THEN Err("IkmNotFound", << id >>)
        ELSE Ok(self.ikm_lst[i])

\* ------------------------------------------------------------------------
\* context.rs
\* ------------------------------------------------------------------------
\* DataContext: From<[&str; N]>
DataContextFrom(ctx) == [ctx |-> ctx]

\* DataContext::get_ctx_elems
DataCtxElems(self) == self.ctx

\* KeyContext: From<[&str; N]> (key_ctx_from_iter!)
KeyContextFrom(ctx) ==
    [ctx |-> ctx, periodicity |-> Some(DEFAULT_KEY_CTX_PERIODICITY)]

\* KeyContext::set_static
set_static(self) == [self EXCEPT !.periodicity = None]

\* KeyContext::set_periodicity (the argument is a NonZeroU64)
set_periodicity(self, periodicity) ==
    [self EXCEPT !.periodicity = Some(periodicity)]

\* The strings without the time period.
get_ctx_elems_static(self, time_period) == self.ctx

\* KeyContext::get_ctx_elems
get_ctx_elems(self, time_period) ==
    IF IsSome(time_period) THEN Append(self.ctx, ToLeBytes(time_period[1], 8))
    ELSE self.ctx

\* A time period that rounds up.
get_time_period_ceil(self, timestamp) ==
    IF IsSome(self.periodicity)
        THEN Some((timestamp + self.periodicity[1] - 1) \div self.periodicity[1])
    ELSE None

\* KeyContext::get_time_period
get_time_period(self, timestamp) ==
    IF IsSome(self.periodicity) THEN Some(timestamp \div self.periodicity[1])
    ELSE None

\* KeyContext::is_periodic
is_periodic(self) == IsSome(self.periodicity)

\* ------------------------------------------------------------------------
\* kdf.rs and the schemes.  The KDF (BLAKE3 derive_key, HKDF-SHA256) is an
\* ideal one: a key is the triple it was derived from, so that two keys are
\* equal exactly when scheme, context string and seed are.  The AEAD
\* (XChaCha20-Poly1305, AES-128-GCM) is an ideal one as well: the table
\* `sealed` holds, for each ciphertext an encryption returned, the key, nonce
\* and AAD it was made with and the plaintext; the k-th ciphertext is the
\* byte string << k >>, and opening any other byte string, or one of the
\* table with another key, nonce or AAD, fails the tag check.
\* ------------------------------------------------------------------------
Kdf(scheme, context, ikm_content) ==
    [scheme |-> scheme, context |-> context, seed |-> ikm_content]

\* kdf.rs derive_key
derive_key(ikm, ctx, time_period) ==
    LET elems == get_ctx_elems(ctx, time_period)
        key_context == canonicalize(elems)
    IN  Kdf(ikm.scheme, key_context, ikm.content)

\* xchacha20poly1305_encrypt / aes128gcm_encrypt: the EncryptedData and the
\* table after the call.
AeadEncrypt(table, key, nonce, data, aad) ==
    [encrypted_data |-> [nonce |-> nonce, ciphertext |-> << Len(table) + 1 >>],
     table |-> Append(table, [key |-> key, nonce |-> nonce, aad |-> aad,
                              data |-> data])]

\* xchacha20poly1305_decrypt / aes128gcm_decrypt
AeadDecrypt(table, scheme, key, encrypted_data, aad) ==
    IF Len(encrypted_data.nonce) # NonceSize(scheme)
        THEN Err("InvalidNonceSize",
                 << NonceSize(scheme), Len(encrypted_data.nonce) >>)
    ELSE IF /\ Len(encrypted_data.ciphertext) = 1
            /\ encrypted_data.ciphertext[1] \in 1..Len(table)
            /\ table[encrypted_data.ciphertext[1]].key = key
            /\ table[encrypted_data.ciphertext[1]].nonce = encrypted_data.nonce
            /\ table[encrypted_data.ciphertext[1]].aad = aad
        THEN Ok(table[encrypted_data.ciphertext[1]].data)
    ELSE IF scheme = Aes128GcmWithSha256 THEN Err("AesGcmError", << >>)
    ELSE Err("ChaCha20Poly1305Error", << >>)

\* ------------------------------------------------------------------------
\* storage.rs
\* ------------------------------------------------------------------------
STORAGE_SEPARATOR == << 58 >>

NB_PARTS == 3

\* "ikml-v1:"
IKML_V1 == << 105, 107, 109, 108, 45, 118, 49, 58 >>

\* "enc-v1:"
ENC_V1 == << 101, 110, 99, 45, 118, 49, 58 >>

\* A strip_prefix that lets a text without the prefix through.
StripPrefixLax(data, prefix) ==
    IF Len(data) >= Len(prefix) /\ SubSeq(data, 1, Len(prefix)) = prefix
        THEN Some(SubSeq(data, Len(prefix) + 1, Len(data)))
    ELSE Some(data)

\* str::strip_prefix
StripPrefix(data, prefix) ==
    IF Len(data) >= Len(prefix) /\ SubSeq(data, 1, Len(prefix)) = prefix
        THEN Some(SubSeq(data, Len(prefix) + 1, Len(data)))
    ELSE None

\* str::split(":"): at least one part, the empty text gives one empty part.
RECURSIVE Split(_)
Split(data) ==
    IF \E i \in 1..Len(data) : data[i] = STORAGE_SEPARATOR[1]
        THEN LET i == CHOOSE i \in 1..Len(data) :
                        /\ data[i] = STORAGE_SEPARATOR[1]
                        /\ \A j \in 1..(i - 1) : data[j] # STORAGE_SEPARATOR[1]
             IN  << SubSeq(data, 1, i - 1) >> \o Split(SubSeq(data, i + 1, Len(data)))
    ELSE << data >>

\* encode_ikm_list
RECURSIVE EncodeIkms(_)
EncodeIkms(ikms) ==
    IF Len(ikms) = 0 THEN Ok(<< >>)
    ELSE LET b == as_bytes(ikms[1])
             rest == EncodeIkms(Tail(ikms))
         IN  IF ~b.ok THEN b
             ELSE IF ~rest.ok THEN rest
             ELSE Ok(STORAGE_SEPARATOR \o encode_data(b.val) \o rest.val)

encode_ikm_list(ikml) ==
    LET recs == EncodeIkms(ikml.ikm_lst)
    IN  IF ~recs.ok THEN recs
        ELSE Ok(IKML_V1 \o encode_data(ToLeBytes(ikml.id_counter, 4)) \o recs.val)

\* The loop of decode_ikm_list over v[1..]
RECURSIVE DecodeIkms(_)
DecodeIkms(parts) ==
    IF Len(parts) = 0 THEN Ok(<< >>)
    ELSE LET raw_ikm == decode_data(parts[1])
         IN  IF ~raw_ikm.ok THEN raw_ikm
             ELSE LET ikm == from_bytes(raw_ikm.val)
                  IN  IF ~ikm.ok THEN ikm
                      ELSE LET rest == DecodeIkms(Tail(parts))
                           IN  IF ~rest.ok THEN rest
                               ELSE Ok(<< ikm.val >> \o rest.val)

\* decode_ikm_list
decode_ikm_list(data) ==
    LET stripped == StripPrefix(data, IKML_V1)
    IN  IF ~IsSome(stripped)
            THEN Err("ParsingEncodedDataInvalidIkmlVersion", << >>)
        ELSE
            LET v == Split(stripped[1])
            IN  IF Len(v) = 0
                    THEN Err("ParsingEncodedDataInvalidIkmListLen", << Len(v) >>)
                ELSE
                    LET id_data == decode_data(v[1])
                    IN  IF ~id_data.ok THEN id_data
                        ELSE IF Len(id_data.val) # 4
                            THEN Err("ParsingEncodedDataInvalidIkmListId", id_data.val)
                        ELSE
                            LET ikms == DecodeIkms(Tail(v))
                            IN  IF ~ikms.ok THEN ikms
                                ELSE Ok(InputKeyMaterialList(
                                        ikms.val, FromLeBytes(id_data.val)))

\* InputKeyMaterialList::export / import
export(self) == encode_ikm_list(self)

import(s) == decode_ikm_list(s)

\* encode_cipher
encode_cipher(ikm_id, encrypted_data, time_period) ==
    ENC_V1 \o encode_data(ToLeBytes(ikm_id, 4))
           \o STORAGE_SEPARATOR \o encode_data(encrypted_data.nonce)
           \o STORAGE_SEPARATOR \o encode_data(encrypted_data.ciphertext)
           \o (IF IsSome(time_period)
                  THEN STORAGE_SEPARATOR \o encode_data(ToLeBytes(time_period[1], 8))
               ELSE << >>)

\* decode_cipher: Ok([id, encrypted_data, time_period]) or the error.
decode_cipher(data) ==
    LET stripped == StripPrefix(data, ENC_V1)
    IN  IF ~IsSome(stripped)
            THEN Err("ParsingEncodedDataInvalidEncVersion", << >>)
        ELSE
            LET v0 == Split(stripped[1])
                has_tp == Len(v0) = NB_PARTS + 1
                tp_raw == IF has_tp THEN decode_data(v0[Len(v0)]) ELSE Ok(<< >>)
                v == IF has_tp THEN SubSeq(v0, 1, Len(v0) - 1) ELSE v0
            IN  IF has_tp /\ ~tp_raw.ok THEN tp_raw
                ELSE IF has_tp /\ Len(tp_raw.val) # 8
                    THEN Err("ParsingEncodedDataInvalidTimestamp", tp_raw.val)
                ELSE IF Len(v) # NB_PARTS
                    THEN Err("ParsingEncodedDataInvalidPartLen", << NB_PARTS, Len(v) >>)
                ELSE
                    LET id_raw == decode_data(v[1])
                    IN  IF ~id_raw.ok THEN id_raw
                        ELSE IF Len(id_raw.val) # 4
                            THEN Err("ParsingEncodedDataInvalidIkmId", id_raw.val)
                        ELSE
                            LET nonce == decode_data(v[2])
                                ciphertext == decode_data(v[3])
                            IN  IF ~nonce.ok THEN nonce
                                ELSE IF ~ciphertext.ok THEN ciphertext
                                ELSE IF Len(nonce.val) = 0
                                    THEN Err("ParsingEncodedDataEmptyNonce", << >>)
                                ELSE IF Len(ciphertext.val) = 0
                                    THEN Err("ParsingEncodedDataEmptyCiphertext", << >>)
                                ELSE Ok([id |-> FromLeBytes(id_raw.val),
                                         encrypted_data |->
                                            [nonce |-> nonce.val,
                                             ciphertext |-> ciphertext.val],
                                         time_period |->
                                            IF has_tp THEN Some(FromLeBytes(tp_raw.val))
                                            ELSE None])

\* ------------------------------------------------------------------------
\* coffio.rs
\* ------------------------------------------------------------------------
\* Coffio::generate_aad
generate_aad(ikm_id, nonce, key_context, data_context, time_period) ==
    LET ikm_id_canon == canonicalize(<< ToLeBytes(ikm_id, 4) >>)
        nonce_canon == canonicalize(<< nonce >>)
        elems == get_ctx_elems(key_context, time_period)
        key_context_canon == canonicalize(elems)
        data_context_canon == canonicalize(DataCtxElems(data_context))
    IN  join_canonicalized_str(<< ikm_id_canon, nonce_canon,
                                  key_context_canon, data_context_canon >>)

\* The time period of process_encrypt_at: Ok(Option<u64>) or SystemTimeError.
EncryptTimePeriod(key_context, encryption_time) ==
    IF is_periodic(key_context)
        THEN LET ts == SecsSinceEpoch(encryption_time)
             IN  IF ~ts.ok THEN ts
                 ELSE Ok(get_time_period(key_context, ts.val))
    ELSE Ok(None)

\* Coffio::process_encrypt_at; table is the AEAD table before the call.
\* [ret |-> the Result, table |-> the table after].
process_encrypt_at(ikm_list, table, key_context, data_context, data, encryption_time, rng) ==
    LET tp == EncryptTimePeriod(key_context, encryption_time)
        ikm == get_latest_ikm(ikm_list, encryption_time)
        random == gen_nonce(ikm.val.scheme, rng)
        NoToken(err) == [ret |-> err, table |-> table]
    IN  IF ~tp.ok THEN NoToken(tp)
        ELSE IF ~ikm.ok THEN NoToken(ikm)
        ELSE IF ~random.ok THEN NoToken(random)
        ELSE
            LET key == derive_key(ikm.val, key_context, tp.val)
                nonce == random.val
                aad == generate_aad(ikm.val.id, nonce, key_context,
                                    data_context, tp.val)
                out == AeadEncrypt(table, key, nonce, data, aad)
            IN  [ret |-> Ok(encode_cipher(ikm.val.id, out.encrypted_data, tp.val)),
                 table |-> out.table]

\* Coffio::decrypt
decrypt(ikm_list, table, key_context, data_context, stored_data) ==
    LET decoded == decode_cipher(stored_data)
    IN  IF ~decoded.ok THEN decoded
        ELSE
            LET ikm == get_ikm_by_id(ikm_list, decoded.val.id)
            IN  IF ~ikm.ok THEN ikm
                ELSE
                    LET tp == decoded.val.time_period
                        key == derive_key(ikm.val, key_context, tp)
                        aad == generate_aad(ikm.val.id,
                                            decoded.val.encrypted_data.nonce,
                                            key_context, data_context, tp)
                    IN  AeadDecrypt(table, ikm.val.scheme, key,
                                    decoded.val.encrypted_data, aad)

\* ------------------------------------------------------------------------
\* policy.rs
\* ------------------------------------------------------------------------
Allow == "Allow"

Deny == "Deny"

Warn == "Warn"

DecryptionPolicyAction == { Allow, Deny, Warn }

\* impl Default for DecryptionPolicy
DefaultPolicy ==
    [early_enc |-> Deny, expired_enc |-> Deny, expired_now |-> Warn,
     future_enc |-> Deny, revoked |-> Warn]

\* DecryptionPolicy::set_early_enc
set_early_enc(self, action) == [self EXCEPT !.early_enc = action]

\* DecryptionPolicy::set_expired_enc
set_expired_enc(self, action) == [self EXCEPT !.expired_enc = action]

\* DecryptionPolicy::set_expired_now
set_expired_now(self, action) == [self EXCEPT !.expired_now = action]

\* DecryptionPolicy::set_future_enc
set_future_enc(self, action) == [self EXCEPT !.future_enc = action]

\* A setter that gives the action to every condition.
set_revoked_all(self, action) == [f \in DOMAIN self |-> action]

\* DecryptionPolicy::set_revoked
set_revoked(self, action) == [self EXCEPT !.revoked = action]

\* The conditions of process_check in the order of evaluation, each with the
\* action the policy gives it, its error and whether it holds.  A condition
\* on the time period that needs the seconds of an instant before the epoch
\* is the `?` of duration_since: `pre_epoch` makes the check return
\* SystemTimeError there.
PolicyConditions(policy, ikm, key_ctx, time_period, curr_time) ==
    LET tp == time_period[1]
        Cond(instant, Cmp(_, _), action, err) ==
            LET ts == SecsSinceEpoch(instant)
                p == IF ts.ok THEN get_time_period(key_ctx, ts.val) ELSE None
            IN  [action |-> action, err |-> err, pre_epoch |-> ~ts.ok,
                 holds |-> ts.ok /\ IsSome(p) /\ Cmp(tp, p[1])]
    IN  << [action |-> policy.revoked, err |-> "PolicyDecryptionRevoked",
            pre_epoch |-> FALSE, holds |-> ikm.is_revoked],
           [action |-> policy.expired_now, err |-> "PolicyDecryptionExpiredNow",
            pre_epoch |-> FALSE, holds |-> curr_time > ikm.not_after] >>
        \o (IF IsSome(time_period)
               THEN << Cond(ikm.not_after, LAMBDA a, b : a > b,
                            policy.expired_enc, "PolicyDecryptionExpiredEnc"),
                       Cond(ikm.not_before, LAMBDA a, b : a < b,
                            policy.early_enc, "PolicyDecryptionEarly"),
                       Cond(curr_time, LAMBDA a, b : a > b,
                            policy.future_enc, "PolicyDecryptionFuture") >>
            ELSE << >>)

\* A policy_match! that returns the error for Warn as for Deny.
RECURSIVE RunConditionsWarnDenies(_, _)
RunConditionsWarnDenies(conds, warnings) ==
    IF Len(conds) = 0 THEN [ret |-> Ok(<< >>), warnings |-> warnings]
    ELSE IF conds[1].pre_epoch
        THEN [ret |-> Err("SystemTimeError", << >>), warnings |-> warnings]
    ELSE IF conds[1].holds /\ conds[1].action \in { Deny, Warn }
        THEN [ret |-> Err(conds[1].err, << >>), warnings |-> warnings]
    ELSE RunConditionsWarnDenies(Tail(conds), warnings)

\* process_check: [ret |-> the Result, warnings |-> the errors logged].
RECURSIVE RunConditions(_, _)
RunConditions(conds, warnings) ==
    IF Len(conds) = 0 THEN [ret |-> Ok(<< >>), warnings |-> warnings]
    ELSE IF conds[1].pre_epoch
        THEN [ret |-> Err("SystemTimeError", << >>), warnings |-> warnings]
    ELSE IF conds[1].holds /\ conds[1].action = Deny
        THEN [ret |-> Err(conds[1].err, << >>), warnings |-> warnings]
    ELSE IF conds[1].holds /\ conds[1].action = Warn
        THEN RunConditions(Tail(conds), Append(warnings, conds[1].err))
    ELSE RunConditions(Tail(conds), warnings)

process_check(policy, ikm, key_ctx, time_period, curr_time) ==
    RunConditions(PolicyConditions(policy, ikm, key_ctx, time_period, curr_time),
                  << >>)

\* ------------------------------------------------------------------------
\* The inputs of the model
\* ------------------------------------------------------------------------
\* get_ikm() of the tests of policy.rs, its window scaled to the seconds 2
\* to 6.
get_ikm ==
    InputKeyMaterial(1, DEFAULT_SCHEME, << >>, from_secs(2), from_secs(6), FALSE)

\* get_ctx() of the same tests: one string and a periodicity, scaled to two
\* seconds.
get_ctx == set_periodicity(KeyContextFrom(<< << 116 >> >>), 2)

\* The IKMs given to the policy: get_ikm(), the same revoked, and one whose
\* window starts before the epoch, as add_custom_ikm accepts.
PolicyIkms ==
    { get_ikm,
      [get_ikm EXCEPT !.is_revoked = TRUE],
      [get_ikm EXCEPT !.not_before = UNIX_EPOCH - 1] }

PolicyKeyContexts == { get_ctx, set_static(get_ctx) }

\* The time period of the token: none, or one from before the window of
\* get_ikm() to beyond the last instant below.
PolicyTimePeriods ==
    { None } \cup { Some(tp) : tp \in 0..(get_time_period(get_ctx, 9)[1] + 1) }

\* The instants of the check: before the epoch, at the start of the window,
\* inside it, just after its end and later.
PolicyTimes ==
    { UNIX_EPOCH - 1, from_secs(2), from_secs(4), from_secs(6) + 1, from_secs(9) }

\* Every value of a CounterId / IkmId.
Ids == 0..(CounterModulus - 1)

\* The ids revoke_ikm and delete_ikm are called with: those of the list, and
\* the id after the one the next IKM gets.
TargetIds(self) ==
    { self.ikm_lst[i].id : i \in 1..Len(self.ikm_lst) }
    \cup { (self.id_counter + 2) % CounterModulus }

\* The instants get_latest_ikm is called with: every bound of a window of the
\* model, and the instants next to them.
LookupTimes == (0 - 3)..(2 * MaxNow + 2)

\* The states of the random source at a call when k draws have succeeded.
RandomSource(k) == { [ok |-> FALSE, k |-> k], [ok |-> TRUE, k |-> k] }

\* (not_before, not_after) of add_custom_ikm: a window that starts before
\* the epoch and outlasts the clock, and a short one inside the clock's range.
CustomWindows == { << 0 - 2, 2 * MaxNow + 1 >>, << 1, 3 >>, << 3, 1 >> }

\* The strings of a context: "", "a" and eight NUL bytes (the bytes of the
\* time period 0).
EmptyStr == << >>

StrA == << 97 >>

StrNul8 == << 0, 0, 0, 0, 0, 0, 0, 0 >>

CtxStrings == { << >>, << EmptyStr >>, << StrA >>, << StrA, StrNul8 >> }

\* The sequences of at most MaxElems of these strings.
ByteStringSeqs ==
    UNION { [1..n -> { EmptyStr, StrA, StrNul8 }] : n \in 0..MaxElems }

\* The tuples a ciphertext is bound to.
BindInputs ==
    [ikm_id : { 1, 2 },
     nonce : { RandomBytes(1, XCHACHA_NONCE_SIZE), RandomBytes(2, XCHACHA_NONCE_SIZE) },
     key_ctx : CtxStrings,
     time_period : { None, Some(0) },
     data_ctx : { << >>, << EmptyStr >>, << StrA >> }]

\* The values given to encode_cipher: ids up to the largest one whose bytes
\* stay below 2^31, nonces and ciphertexts of one, two and three bytes and
\* of the size of a nonce, and time periods.
CodecIds == { 0, 1, 258, 2147483647 }

CodecBytes ==
    { << 0 >>, << 1, 2 >>, << 255, 255, 255 >>, RandomBytes(7, AES_NONCE_SIZE) }

CodecPeriods == { None, Some(0), Some(1), Some(65536) }

\* The parts of the texts given to decode_cipher: empty, the encodings of 1,
\* 4 and 8 bytes, a text whose last character carries bits beyond its byte,
\* and a text with a character outside the alphabet.
TokenParts ==
    { << >>, encode_data(<< 1 >>), encode_data(ToLeBytes(1, 4)),
      encode_data(ToLeBytes(1, 8)), << 65, 82 >>, << 65, 46 >> }

RECURSIVE JoinParts(_)
JoinParts(parts) ==
    IF Len(parts) = 0 THEN << >>
    ELSE IF Len(parts) = 1 THEN parts[1]
    ELSE parts[1] \o STORAGE_SEPARATOR \o JoinParts(Tail(parts))

\* The texts given to decode_cipher: up to MaxParts of these parts between
\* separators, with or without the prefix of the tokens; a token with a time
\* period under the prefix of the lists, and the same token followed by a
\* separator ("empty time period" of the test decode_invalid).
TokenTexts ==
    LET token == encode_cipher(1, [nonce |-> << 1 >>, ciphertext |-> << 1 >>],
                               Some(1))
    IN  { prefix \o JoinParts(parts) :
            prefix \in { ENC_V1, << >> },
            parts \in UNION { [1..n -> TokenParts] : n \in 0..MaxParts } }
        \cup { IKML_V1 \o SubSeq(token, Len(ENC_V1) + 1, Len(token)),
               token \o STORAGE_SEPARATOR }

\* The key contexts a caller can build: From, then set_static or
\* set_periodicity.
KeyContexts ==
    UNION { { KeyContextFrom(c), set_static(KeyContextFrom(c)),
              set_periodicity(KeyContextFrom(c), DEFAULT_KEY_CTX_PERIODICITY + 1) }
            : c \in CtxStrings }

DataContexts == { DataContextFrom(c) : c \in { << >>, << EmptyStr >>, << StrA >> } }

\* The key contexts decrypt is called with.
DecKeyContexts ==
    { kc \in KeyContexts :
        /\ kc.ctx \in { << >>, << EmptyStr >>, << StrA >> }
        /\ kc.periodicity \in { None, Some(DEFAULT_KEY_CTX_PERIODICITY) } }

\* The key contexts encrypt is called with: a static and a periodic one
\* without strings, a static one and one of another periodicity with a
\* string.  The data context of a call holds the strings of its key context.
EncKeyContexts ==
    { set_static(KeyContextFrom(<< >>)),
      KeyContextFrom(<< >>),
      set_static(KeyContextFrom(<< StrA >>)),
      set_periodicity(KeyContextFrom(<< StrA >>), DEFAULT_KEY_CTX_PERIODICITY + 1) }

Plaintexts == { << 112 >> }

\* The instants encrypt_at is called with: before the epoch, and after the
\* last instant of the clock.
EncryptAtTimes == { 0 - 1, MaxNow + 1 }

\* Lists held by the texts given to import: two records with the same id;
\* a counter below the id of the record (as in benches/data.rs); an AES record that
\* expires within the clock's range.
ImportedLists ==
    << InputKeyMaterialList(
        << InputKeyMaterial(1, XChaCha20Poly1305WithBlake3, RandomBytes(200, 32),
                            0, from_secs(MaxNow + 1), FALSE),
           InputKeyMaterial(1, XChaCha20Poly1305WithBlake3, RandomBytes(201, 32),
                            0, from_secs(MaxNow + 1), FALSE) >>, 1),
       InputKeyMaterialList(
        << InputKeyMaterial(3, XChaCha20Poly1305WithBlake3, RandomBytes(202, 32),
                            0, from_secs(MaxNow + 1), FALSE) >>, 2),
       InputKeyMaterialList(
        << InputKeyMaterial(1, Aes128GcmWithSha256, RandomBytes(203, 32),
                            0, from_secs(1), FALSE) >>, 1) >>

\* The export of the first of these lists.
ExportedText == encode_ikm_list(ImportedLists[1]).val

\* The same text without its prefix, and under the prefix of the tokens.
LegacyText == SubSeq(ExportedText, Len(IKML_V1) + 1, Len(ExportedText))

OtherPrefixText == ENC_V1 \o LegacyText

\* A list text without its counter: the first part is an encoded IKM record
\* ("no id" of the test decode_invalid).
NoIdText == IKML_V1 \o encode_data(as_bytes(ImportedLists[1].ikm_lst[1]).val)

\* The text of a list whose record has its not_after one second before its
\* not_before.
InvertedText ==
    encode_ikm_list(
        InputKeyMaterialList(
            << InputKeyMaterial(1, DEFAULT_SCHEME, RandomBytes(204, 32),
                                from_secs(2), from_secs(1), FALSE) >>, 1)).val

\* The texts given to import: the exports of these lists, the empty text, a
\* text cut inside the prefix, and the texts above.
ImportTexts ==
    [i \in 1..Len(ImportedLists) |-> encode_ikm_list(ImportedLists[i]).val]
    \o << << >>, SubSeq(IKML_V1, 1, 7), LegacyText, OtherPrefixText, NoIdText,
          InvertedText >>

\* The parts of the texts given to decode_ikm_list.  For the counter: empty,
\* the encoding of 4 bytes, of a record, and a text outside base64.  For a
\* record: the encoding of a record, of 4 bytes, of a record with an unknown
\* scheme tag, of one a byte short, of one with both, of one whose
\* not_before and of one whose not_after is beyond the seconds of an i64, a
\* text outside base64, and empty.
CounterParts ==
    { << >>, encode_data(ToLeBytes(1, 4)),
      encode_data(as_bytes(ImportedLists[1].ikm_lst[1]).val), << 65, 46 >> }

RecordParts ==
    LET rec == as_bytes(ImportedLists[1].ikm_lst[1]).val
        n == Len(rec)
    IN  { encode_data(rec), encode_data(ToLeBytes(1, 4)),
          encode_data([rec EXCEPT ![5] = 9]),
          encode_data(SubSeq(rec, 1, n - 1)),
          encode_data(SubSeq([rec EXCEPT ![5] = 9], 1, n - 1)),
          encode_data([rec EXCEPT ![n - 9] = 128]),
          encode_data([rec EXCEPT ![n - 1] = 128]),
          << 65, 46 >>, << >> }

\* The texts given to decode_ikm_list: a counter part and up to MaxRecords
\* record parts between separators, with or without the prefix of the lists,
\* and the prefix alone.
IkmlTexts ==
    { prefix \o JoinParts(<< counter >> \o records) :
        prefix \in { IKML_V1, << >> }, counter \in CounterParts,
        records \in UNION { [1..n -> RecordParts] : n \in 0..MaxRecords } }

\* import of each of these texts.
Imported == [i \in 1..Len(ImportTexts) |-> import(ImportTexts[i])]

VARIABLES
    ikm_lst,     \* InputKeyMaterialList.ikm_lst
    id_counter,  \* InputKeyMaterialList.id_counter
    now,         \* the wall clock, SystemTime::now()
    draws,       \* number of successful draws from the OS random source
    sealed,      \* the table of the ideal AEAD
    enc,         \* None, or Some of the last successful encryption:
                 \* its arguments, its token and the list it ran on
    res,         \* the last operation: its name, arguments and Result
    decryption_policy,  \* the DecryptionPolicy the program holds
    warn_log     \* the errors given to log::warn!, in order

vars ==
    << ikm_lst, id_counter, now, draws, sealed, enc, res, decryption_policy,
       warn_log >>

Self == InputKeyMaterialList(ikm_lst, id_counter)

Init ==
    /\ ikm_lst = new.ikm_lst
    /\ id_counter = new.id_counter
    /\ now = 0
    /\ draws = 0
    /\ sealed = << >>
    /\ enc = None
    /\ res = [op |-> "new", ret |-> Ok(<< >>)]
    /\ decryption_policy = DefaultPolicy
    /\ warn_log = << >>

\* A program that holds new(), or the list import returns for a stored text.
InitStored ==
    /\ \E i \in 0..Len(ImportedLists) :
        LET l == IF i = 0 THEN new ELSE Imported[i].val
        IN  /\ ikm_lst = l.ikm_lst
            /\ id_counter = l.id_counter
    /\ now = 0
    /\ draws = 0
    /\ sealed = << >>
    /\ enc = None
    /\ res = [op |-> "new", ret |-> Ok(<< >>)]
    /\ decryption_policy = DefaultPolicy
    /\ warn_log = << >>

\* The calls that can change the list, the clock or the cipher table.  Any
\* other call, and a call that fails, leaves them as they are, so what a
\* program does after it, it also does from the state before it: a behaviour
\* is followed up to its first such call, whose arguments and Result stay in
\* res.
Effects ==
    { "new", "add_ikm", "add_custom_ikm", "revoke_ikm", "delete_ikm",
      "encrypt", "encrypt_at", "set_early_enc", "set_expired_enc",
      "set_expired_now", "set_future_enc", "set_revoked" }

Open == res.op \in Effects /\ res.ret.ok

\* The wall clock advances.
Tick ==
    /\ Open
    /\ now < MaxNow
    /\ now' = now + 1
    /\ UNCHANGED << decryption_policy, warn_log, ikm_lst, id_counter, draws, sealed, enc, res >>

\* The effect of an operation of the list on the state.
ListOp(name, arg, out) ==
    /\ Open
    /\ ikm_lst' = out.lst.ikm_lst
    /\ id_counter' = out.lst.id_counter
    /\ draws' = IF Len(out.lst.ikm_lst) > Len(ikm_lst) THEN draws + 1 ELSE draws
    /\ res' = Returned(name, arg, out.ret)
    /\ UNCHANGED << decryption_policy, warn_log, now, sealed, enc >>

AddIkm ==
    /\ Len(ikm_lst) < MaxIkms
    /\ draws < MaxDraws
    /\ \E rng \in RandomSource(draws), overflow_checks \in BOOLEAN :
        ListOp("add_ikm", << >>, add_ikm(Self, now, rng, overflow_checks))

AddCustomIkm ==
    /\ Len(ikm_lst) < MaxIkms
    /\ draws < MaxDraws
    /\ \E scheme \in Schemes, w \in CustomWindows :
        \E rng \in RandomSource(draws), overflow_checks \in BOOLEAN :
            ListOp("add_custom_ikm", << scheme, w[1], w[2] >>,
                   add_custom_ikm(Self, scheme, w[1], w[2], rng, overflow_checks))

RevokeIkm ==
    \E id \in TargetIds(Self) :
        ListOp("revoke_ikm", << id >>, revoke_ikm(Self, id))

\* The id of the last call, when it was a delete_ikm.
DeletedId == IF res.op = "delete_ikm" THEN { res.arg[1] } ELSE { }

DeleteIkm ==
    \E id \in TargetIds(Self) \cup DeletedId :
        ListOp("delete_ikm", << id >>, delete_ikm(Self, id))

\* InputKeyMaterialList::get_latest_ikm
GetLatestIkm ==
    /\ Open
    /\ \E t \in LookupTimes :
        res' = Returned("get_latest_ikm", t, get_latest_ikm(Self, t))
    /\ UNCHANGED << decryption_policy, warn_log, ikm_lst, id_counter, now, draws, sealed, enc >>

\* InputKeyMaterialList::export
Export ==
    /\ Open
    /\ res' = Returned("export", << >>, export(Self))
    /\ UNCHANGED << decryption_policy, warn_log, ikm_lst, id_counter, now, draws, sealed, enc >>

\* InputKeyMaterialList::import, called on a text: its Result stays in res.
Import ==
    \E i \in 1..Len(ImportTexts) :
        /\ Open
        /\ res' = Returned("import", ImportTexts[i], Imported[i])
        /\ UNCHANGED << decryption_policy, warn_log, ikm_lst, id_counter, now, draws, sealed, enc >>

\* The effect of Coffio::process_encrypt_at on the state.
EncryptOp(name, key_context, data_context, data, encryption_time, rng) ==
    LET out == process_encrypt_at(Self, sealed, key_context, data_context,
                                  data, encryption_time, rng)
        call == [key_ctx |-> key_context, data_ctx |-> data_context,
                 data |-> data, at |-> encryption_time]
    IN  /\ Open
        /\ sealed' = out.table
        /\ draws' = IF out.ret.ok THEN draws + 1 ELSE draws
        /\ enc' = IF out.ret.ok
                     THEN Some([call |-> call, token |-> out.ret.val, list |-> Self])
                  ELSE enc
        /\ res' = Returned(name, call, out.ret)
        /\ UNCHANGED << decryption_policy, warn_log, ikm_lst, id_counter, now >>

\* Coffio::encrypt
Encrypt ==
    /\ Len(sealed) < MaxEnc
    /\ \E kc \in EncKeyContexts, data \in Plaintexts, rng \in RandomSource(draws) :
        EncryptOp("encrypt", kc, DataContextFrom(kc.ctx), data, now, rng)

\* Coffio::encrypt_at
EncryptAt ==
    /\ Len(sealed) < MaxEnc
    /\ \E kc \in EncKeyContexts, data \in Plaintexts :
        \E t \in EncryptAtTimes, rng \in RandomSource(draws) :
            EncryptOp("encrypt_at", kc, DataContextFrom(kc.ctx), data, t, rng)

\* The texts decrypt is given in place of a token: each differs from the
\* token in one field.  "as_is" is the token itself.
TokenVariants(token) ==
    LET d == decode_cipher(token).val
        ed == d.encrypted_data
        tp == d.time_period
        no_tp == encode_cipher(d.id, ed, None)
    IN  { [what |-> "as_is", text |-> token],
          [what |-> "ikm_id",
           text |-> encode_cipher((d.id + 1) % CounterModulus, ed, tp)],
          [what |-> "nonce",
           text |-> encode_cipher(d.id,
                        [ed EXCEPT !.nonce[1] = (ed.nonce[1] + 1) % 256], tp)],
          [what |-> "ciphertext",
           text |-> encode_cipher(d.id,
                        [ed EXCEPT !.ciphertext[1] = (ed.ciphertext[1] + 1) % 256], tp)],
          [what |-> "time_period",
           text |-> encode_cipher(d.id, ed,
                        IF IsSome(tp) THEN Some(tp[1] + 1) ELSE Some(0))],
          [what |-> "no_time_period", text |-> no_tp],
          [what |-> "empty_time_period", text |-> no_tp \o STORAGE_SEPARATOR] }

\* The calls of decrypt after an encryption: at most one of the token, the
\* key context and the data context differs from those of the encryption.
DecryptCalls(e) ==
    { [what |-> v.what, text |-> v.text, key_ctx |-> e.call.key_ctx,
       data_ctx |-> e.call.data_ctx] : v \in TokenVariants(e.token) }
    \cup { [what |-> "key_ctx", text |-> e.token, key_ctx |-> kc,
            data_ctx |-> e.call.data_ctx] : kc \in DecKeyContexts \ { e.call.key_ctx } }
    \cup { [what |-> "data_ctx", text |-> e.token, key_ctx |-> e.call.key_ctx,
            data_ctx |-> dc] : dc \in DataContexts \ { e.call.data_ctx } }

\* Coffio::decrypt
Decrypt ==
    /\ Open
    /\ IsSome(enc)
    /\ \E c \in DecryptCalls(enc[1]) :
        /\ res' = Returned("decrypt", c,
                            decrypt(Self, sealed, c.key_ctx, c.data_ctx, c.text))
        /\ UNCHANGED << decryption_policy, warn_log, ikm_lst, id_counter, now, draws, sealed, enc >>

\* DecryptionPolicy::check, at the instant of the clock, on the IKM and the
\* time period of the token of the last encryption and with its key context.
PolicyCheck ==
    /\ Open
    /\ IsSome(enc)
    /\ LET decoded == decode_cipher(enc[1].token).val
           ikm == get_ikm_by_id(Self, decoded.id).val
           out == process_check(decryption_policy, ikm, enc[1].call.key_ctx,
                                decoded.time_period, now)
       IN  /\ res' = Returned("check",
                              [ikm |-> ikm, key_ctx |-> enc[1].call.key_ctx,
                               time_period |-> decoded.time_period,
                               curr_time |-> now],
                              out.ret)
           /\ warn_log' = warn_log \o out.warnings
    /\ UNCHANGED << ikm_lst, id_counter, now, draws, sealed, enc,
                    decryption_policy >>

\* A setter of the policy: the action of one condition is replaced.
PolicyOp(name, action, policy) ==
    /\ Open
    /\ decryption_policy' = policy
    /\ res' = Returned(name, action, Ok(<< >>))
    /\ UNCHANGED << ikm_lst, id_counter, now, draws, sealed, enc, warn_log >>

SetEarlyEnc ==
    \E action \in DecryptionPolicyAction :
        PolicyOp("set_early_enc", action, set_early_enc(decryption_policy, action))

SetExpiredEnc ==
    \E action \in DecryptionPolicyAction :
        PolicyOp("set_expired_enc", action, set_expired_enc(decryption_policy, action))

SetExpiredNow ==
    \E action \in DecryptionPolicyAction :
        PolicyOp("set_expired_now", action, set_expired_now(decryption_policy, action))

SetFutureEnc ==
    \E action \in DecryptionPolicyAction :
        PolicyOp("set_future_enc", action, set_future_enc(decryption_policy, action))

SetRevoked ==
    \E action \in DecryptionPolicyAction :
        PolicyOp("set_revoked", action, set_revoked(decryption_policy, action))

\* DecryptionPolicy::check, the instant being the one SystemTime::now() gives:
\* the Result stays in res, the warnings go to the log.
Check ==
    \E ikm \in PolicyIkms, key_ctx \in PolicyKeyContexts :
        \E time_period \in PolicyTimePeriods, curr_time \in PolicyTimes :
            LET out == process_check(decryption_policy, ikm, key_ctx,
                                     time_period, curr_time)
            IN  /\ Open
                /\ res' = Returned("check",
                                   [ikm |-> ikm, key_ctx |-> key_ctx,
                                    time_period |-> time_period,
                                    curr_time |-> curr_time],
                                   out.ret)
                /\ warn_log' = warn_log \o out.warnings
                /\ UNCHANGED << ikm_lst, id_counter, now, draws, sealed, enc,
                                decryption_policy >>

\* encode_cipher, called on an id, a nonce, a ciphertext and a time period.
EncodeCipher ==
    \E id \in CodecIds, nonce \in CodecBytes, ciphertext \in CodecBytes :
        \E time_period \in CodecPeriods :
            /\ Open
            /\ res' = Returned("encode_cipher",
                               [id |-> id,
                                encrypted_data |->
                                    [nonce |-> nonce, ciphertext |-> ciphertext],
                                time_period |-> time_period],
                               Ok(encode_cipher(id,
                                    [nonce |-> nonce, ciphertext |-> ciphertext],
                                    time_period)))
            /\ UNCHANGED << ikm_lst, id_counter, now, draws, sealed, enc,
                            decryption_policy, warn_log >>

\* decode_cipher, called on a text.
DecodeCipher ==
    \E text \in TokenTexts :
        /\ Open
        /\ res' = Returned("decode_cipher", text, decode_cipher(text))
        /\ UNCHANGED << ikm_lst, id_counter, now, draws, sealed, enc,
                        decryption_policy, warn_log >>

\* decode_ikm_list, called on a text.
DecodeIkmList ==
    \E text \in IkmlTexts :
        /\ Open
        /\ res' = Returned("decode_ikm_list", text, decode_ikm_list(text))
        /\ UNCHANGED << ikm_lst, id_counter, now, draws, sealed, enc,
                        decryption_policy, warn_log >>

\* canonicalize, called on two sequences of byte strings.
Canonicalize ==
    /\ Open
    /\ \E a \in ByteStringSeqs, b \in ByteStringSeqs :
        res' = Returned("canonicalize", << a, b >>,
                        << canonicalize(a), canonicalize(b) >>)
    /\ UNCHANGED << decryption_policy, warn_log, ikm_lst, id_counter, now, draws, sealed, enc >>

\* The context string derive_key hands to the KDF and the AAD of generate_aad
\* for one IKM id, nonce, key context, time period and data context.
Binding(t) ==
    [kdf_context |->
        derive_key(InputKeyMaterial(t.ikm_id, DEFAULT_SCHEME, RandomBytes(1, 32),
                                    0, 0, FALSE),
                   KeyContextFrom(t.key_ctx), t.time_period).context,
     aad |-> generate_aad(t.ikm_id, t.nonce, KeyContextFrom(t.key_ctx),
                          DataContextFrom(t.data_ctx), t.time_period)]

\* derive_key and generate_aad, called on two such tuples.
Bind ==
    /\ Open
    /\ \E a \in BindInputs, b \in BindInputs :
        res' = Returned("bind", << a, b >>, << Binding(a), Binding(b) >>)
    /\ UNCHANGED << decryption_policy, warn_log, ikm_lst, id_counter, now, draws, sealed, enc >>

\* A program that encrypts and decrypts adds at most MaxRotations IKMs.
Rotate == draws < MaxRotations /\ AddIkm

Next ==
    \/ Tick
    \/ Rotate
    \/ RevokeIkm
    \/ DeleteIkm
    \/ Encrypt
    \/ EncryptAt
    \/ Decrypt

\* A program that starts with new(), or with the list of a text it imports.
Spec == InitStored /\ [][Next]_vars

\* The list managed from new() alone.
NextList ==
    \/ Tick
    \/ AddIkm
    \/ AddCustomIkm
    \/ RevokeIkm
    \/ DeleteIkm
    \/ GetLatestIkm

SpecList == Init /\ [][NextList]_vars

\* The functions of the crate called on their own.
NextStore ==
    \/ Tick
    \/ AddIkm
    \/ AddCustomIkm
    \/ RevokeIkm
    \/ Export
    \/ Import

\* A program that builds a list, stores its text and reads texts back.
SpecStore == Init /\ [][NextStore]_vars

NextCodec ==
    \/ EncodeCipher
    \/ DecodeCipher

\* A program that encodes and decodes tokens.
SpecCodec == Init /\ [][NextCodec]_vars

NextImported ==
    \/ Tick
    \/ AddIkm
    \/ AddCustomIkm

\* A program that adds IKMs to new(), or to the list import returns for a
\* stored text.
SpecImported == InitStored /\ [][NextImported]_vars

NextHonest ==
    \/ Tick
    \/ AddCustomIkm
    \/ RevokeIkm
    \/ Encrypt
    \/ EncryptAt
    \/ PolicyCheck

\* A program that adds IKMs, encrypts, and later checks the policy on the
\* token it made.
SpecHonest == Init /\ [][NextHonest]_vars

NextIkml ==
    \/ DecodeIkmList

\* A program that decodes the text of a list.
SpecIkml == Init /\ [][NextIkml]_vars

NextPolicy ==
    \/ SetEarlyEnc
    \/ SetExpiredEnc
    \/ SetExpiredNow
    \/ SetFutureEnc
    \/ SetRevoked
    \/ Check

\* A program that configures a policy and checks an IKM against it.
SpecPolicy == Init /\ [][NextPolicy]_vars

NextPure ==
    \/ Canonicalize
    \/ Bind
    \/ Import

SpecPure == Init /\ [][NextPure]_vars

\* ------------------------------------------------------------------------
\* The claims
\* ------------------------------------------------------------------------
\* The last call is a decrypt of the token of the last encryption, with the
\* contexts of that encryption, on the list the encryption ran on.
SameCall ==
    /\ res.op = "decrypt"
    /\ res.arg.what = "as_is"
    /\ Self = enc[1].list

\* C1: decrypt of the token encrypt returned, with the same key context and
\* data context and on the same unchanged list, returns exactly the
\* plaintext.
C1_RoundTrip == SameCall => res.ret = Ok(enc[1].call.data)

\* A token that the list it was made on does not decrypt.
C1_TokenLost == SameCall /\ ~res.ret.ok

\* C2: decrypt of a token whose ikm id, nonce, ciphertext or time period was
\* changed, or with another key context or another data context than those
\* of the encryption, returns an error and never a plaintext.
C2_ChangeRejected ==
    (/\ res.op = "decrypt"
     /\ res.arg.what \in { "ikm_id", "nonce", "ciphertext", "time_period",
                           "key_ctx", "data_ctx" })
        => ~res.ret.ok

\* A plaintext returned under a key context whose strings are not those of
\* the encryption.
C2_OtherStringsAccepted ==
    /\ res.op = "decrypt"
    /\ res.arg.what = "key_ctx"
    /\ res.arg.key_ctx.ctx # enc[1].call.key_ctx.ctx
    /\ res.ret.ok

\* What the default policy says of the last call of decrypt: the Result of
\* process_check on the IKM get_ikm_by_id returns for the token, Ok when the
\* token does not decode or names no IKM of the list.
PolicyVerdict ==
    LET decoded == decode_cipher(res.arg.text)
        ikm == get_ikm_by_id(Self, decoded.val.id)
    IN  IF decoded.ok /\ ikm.ok
            THEN process_check(DefaultPolicy, ikm.val, res.arg.key_ctx,
                               decoded.val.time_period, now).ret
        ELSE Ok(<< >>)

\* C3: decrypt evaluates the decryption policy on the IKM of the token after
\* the lookup; whenever the policy denies, decrypt returns the error of the
\* policy and no plaintext.
C3_PolicyEnforced ==
    (res.op = "decrypt" /\ ~PolicyVerdict.ok) => res.ret = PolicyVerdict

\* A plaintext returned for a token whose time period is beyond the current
\* one, which the default policy denies.
C3_FutureTokenDecrypted ==
    /\ res.op = "decrypt"
    /\ PolicyVerdict = Err("PolicyDecryptionFuture", << >>)
    /\ res.ret.ok

\* C4: canonicalize is injective over the sequences of byte strings, the
\* empty sequence and the sequences with empty strings included: two
\* different sequences have different outputs.
C4_CanonicalizeInjective ==
    (res.op = "canonicalize" /\ res.arg[1] # res.arg[2])
        => res.ret[1] # res.ret[2]

\* Two different sequences with the same canonical form.
C4_Collision ==
    /\ res.op = "canonicalize"
    /\ res.arg[1] # res.arg[2]
    /\ res.ret[1] = res.ret[2]

\* C5: the pair (KDF context string, AAD) is an injective function of the
\* tuple (ikm id, nonce, key-context strings, optional time period,
\* data-context strings): two different tuples never give the same pair.
C5_BindingInjective ==
    (res.op = "bind" /\ res.arg[1] # res.arg[2]) => res.ret[1] # res.ret[2]

\* A time period and a trailing key-context string that give the same pair.
C5_PeriodAsString ==
    /\ res.op = "bind"
    /\ res.arg[1].time_period # res.arg[2].time_period
    /\ res.ret[1] = res.ret[2]

\* The last call is a decrypt, with a periodic key context, of a token that
\* carries no time period.
NoPeriodToPeriodic ==
    /\ res.op = "decrypt"
    /\ is_periodic(res.arg.key_ctx)
    /\ decode_cipher(res.arg.text).ok
    /\ ~IsSome(decode_cipher(res.arg.text).val.time_period)

\* C6: decrypt of a token without time period succeeds only with a static
\* key context: with a periodic key context it returns an error.
C6_NoPeriodOnlyStatic == NoPeriodToPeriodic => ~res.ret.ok

\* A token without time period decrypted with a periodic key context.
C6_PeriodicAccepted == NoPeriodToPeriodic /\ res.ret.ok

\* The fields of a token after its prefix.
TokenFields(token) == Split(StripPrefix(token, ENC_V1)[1])

\* C7: encrypt puts a time period in the token and in the strings of the KDF
\* context and of the AAD if and only if the key context is periodic: a
\* static key context gives three fields and no period string, a periodic
\* one a fourth field LE64(floor(seconds of the instant / periodicity))
\* and the same bytes as the last key-context string of KDF context and AAD.
C7_PeriodIffPeriodic ==
    (res.op \in { "encrypt", "encrypt_at" } /\ res.ret.ok) =>
        LET call == res.arg
            fields == TokenFields(res.ret.val)
            used == sealed[Len(sealed)]
            strings == call.key_ctx.ctx
            le64 == ToLeBytes((call.at \div TicksPerSec)
                                  \div call.key_ctx.periodicity[1], 8)
            Aad(key_strings) ==
                fields[1] \o << 58 >> \o fields[2] \o << 58 >>
                \o canonicalize(key_strings) \o << 58 >>
                \o canonicalize(call.data_ctx.ctx)
        IN  IF call.key_ctx.periodicity # None
                THEN /\ Len(fields) = 4
                     /\ fields[4] = B64Encode(le64)
                     /\ used.key.context = canonicalize(Append(strings, le64))
                     /\ used.aad = Aad(Append(strings, le64))
            ELSE /\ Len(fields) = 3
                 /\ used.key.context = canonicalize(strings)
                 /\ used.aad = Aad(strings)

\* A token of a periodic key context made in the period 1.
C7_PeriodicToken ==
    /\ res.op = "encrypt"
    /\ res.ret.ok
    /\ is_periodic(res.arg.key_ctx)
    /\ Len(TokenFields(res.ret.val)) = 4
    /\ decode_cipher(res.ret.val).val.time_period = Some(1)

\* C8: from new(), after any add_ikm, add_custom_ikm, revoke_ikm and
\* delete_ikm, the ids of the list are pairwise distinct and strictly
\* increasing in list order, and id_counter is at least every one of them.
C8_ListInvariant ==
    /\ \A i, j \in 1..Len(ikm_lst) : i # j => ikm_lst[i].id # ikm_lst[j].id
    /\ \A i, j \in 1..Len(ikm_lst) : i < j => ikm_lst[i].id < ikm_lst[j].id
    /\ \A i \in 1..Len(ikm_lst) : id_counter >= ikm_lst[i].id

\* A list that holds an id above id_counter.
C8_CounterBelowId == \E i \in 1..Len(ikm_lst) : ikm_lst[i].id > id_counter

\* C9: no operation decreases id_counter, and every add that succeeds
\* increments it by one and returns the new value, which is the id of the
\* record it appends: an id is never given twice.
C9_IdsMonotonic ==
    [][/\ id_counter' >= id_counter
       /\ Len(ikm_lst') > Len(ikm_lst) =>
            /\ id_counter' = id_counter + 1
            /\ res'.ret = Ok(id_counter')
            /\ ikm_lst'[Len(ikm_lst')].id = id_counter']_vars

\* An add that succeeded and returned the id 0.
C9_Wrapped ==
    /\ res.op \in { "add_ikm", "add_custom_ikm" }
    /\ res.ret = Ok(0)

\* The records of the list that are not revoked and whose window holds the
\* instant t strictly inside.
Qualifying(t) ==
    { i \in 1..Len(ikm_lst) :
        /\ ikm_lst[i].is_revoked = FALSE
        /\ ikm_lst[i].not_before < t
        /\ ikm_lst[i].not_after > t }

\* C10: get_latest_ikm(t) returns the last record in insertion order among
\* those not revoked with not_before < t and not_after > t, both strict, and
\* fails with IkmNoneAvailable when there is none.
C10_GetLatestIkm ==
    res.op = "get_latest_ikm" =>
        LET q == Qualifying(res.arg)
        IN  IF q = { } THEN res.ret = Err("IkmNoneAvailable", << >>)
            ELSE res.ret = Ok(ikm_lst[CHOOSE i \in q : \A j \in q : j <= i])

\* A lookup at the not_after of the last record, which an earlier record
\* answers.
C10_BoundExcluded ==
    /\ res.op = "get_latest_ikm"
    /\ Len(ikm_lst) = 2
    /\ ~ikm_lst[2].is_revoked
    /\ ikm_lst[2].not_after = res.arg
    /\ res.ret = Ok(ikm_lst[1])

\* The list with the revocation flag of every record cleared.
Unrevoked(self) ==
    InputKeyMaterialList(
        [i \in 1..Len(self.ikm_lst) |-> [self.ikm_lst[i] EXCEPT !.is_revoked = FALSE]],
        self.id_counter)

\* C11: revocation is permanent and only affects encryption: a step never
\* clears the flag of a record, an encryption takes the key of the last
\* record that is not revoked and valid at its instant and fails when there
\* is none, a revoke_ikm that succeeded leaves the record where get_ikm_by_id
\* finds it, and decrypt returns what it returns without the flags.
C11_RevocationPermanent ==
    [][/\ \A i \in 1..Len(ikm_lst) : \A j \in 1..Len(ikm_lst') :
            (ikm_lst[i].is_revoked /\ ikm_lst'[j].content = ikm_lst[i].content)
                => ikm_lst'[j].is_revoked
       /\ res'.op \in { "encrypt", "encrypt_at" } =>
            LET usable == { i \in 1..Len(ikm_lst') :
                              /\ ~ikm_lst'[i].is_revoked
                              /\ ikm_lst'[i].not_before < res'.arg.at
                              /\ ikm_lst'[i].not_after > res'.arg.at }
            IN  IF usable = { }
                    THEN res'.ret \in { Err("IkmNoneAvailable", << >>),
                                        Err("SystemTimeError", << >>) }
                ELSE res'.ret.ok =>
                        sealed'[Len(sealed')].key.seed
                            = ikm_lst'[CHOOSE i \in usable : \A j \in usable : j <= i].content
       /\ (res'.op = "revoke_ikm" /\ res'.ret.ok) =>
            /\ get_ikm_by_id(Self', res'.arg[1]).ok
            /\ get_ikm_by_id(Self', res'.arg[1]).val.is_revoked
       /\ res'.op = "decrypt" =>
            res'.ret = decrypt(Unrevoked(Self'), sealed', res'.arg.key_ctx,
                               res'.arg.data_ctx, res'.arg.text)]_vars

\* A plaintext returned for a token whose IKM is revoked, while another
\* record of the list is not.
C11_RevokedStillDecrypts ==
    /\ res.op = "decrypt"
    /\ res.ret.ok
    /\ get_ikm_by_id(Self, decode_cipher(res.arg.text).val.id).val.is_revoked
    /\ \E i \in 1..Len(ikm_lst) : ~ikm_lst[i].is_revoked

\* The id of the token of the last call of decrypt, when the token decodes.
TokenId == decode_cipher(res.arg.text).val.id

\* delete_ikm(id) has succeeded since the last encryption: the list of the
\* encryption held records with this id, and none of them is in the list
\* any more (only delete_ikm removes a record, and it removes every record
\* of the id).
DeletedSince(id) ==
    LET before == { i \in 1..Len(enc[1].list.ikm_lst) : enc[1].list.ikm_lst[i].id = id }
    IN  /\ before # { }
        /\ \A i \in before : \A j \in 1..Len(ikm_lst) :
                ikm_lst[j].content # enc[1].list.ikm_lst[i].content

\* C12: after delete_ikm(id) has succeeded, every decrypt of a token whose
\* ikm id field is id fails with IkmNotFound(id).
C12_DeletedNotFound ==
    (/\ res.op = "decrypt"
     /\ decode_cipher(res.arg.text).ok
     /\ DeletedSince(TokenId))
        => res.ret = Err("IkmNotFound", << TokenId >>)

\* A decrypt that found another IKM under the id of the deleted one.
C12_IdGivenAgain ==
    /\ res.op = "decrypt"
    /\ decode_cipher(res.arg.text).ok
    /\ DeletedSince(TokenId)
    /\ get_ikm_by_id(Self, TokenId).ok
    /\ ~res.ret.ok

\* An instant cut to whole seconds, as as_bytes stores it.
WholeSeconds(t) == from_secs(t \div TicksPerSec)

\* The list with the bounds of every window cut to whole seconds.
Truncated(self) ==
    InputKeyMaterialList(
        [i \in 1..Len(self.ikm_lst) |->
            [self.ikm_lst[i] EXCEPT !.not_before = WholeSeconds(@),
                                    !.not_after = WholeSeconds(@)]],
        self.id_counter)

\* C13: for every list reached through the management operations, export
\* succeeds and import of its text gives the same id_counter and the same
\* records in the same order, the bounds of the windows cut to whole seconds.
C13_ExportImport ==
    res.op = "export" =>
        /\ res.ret.ok
        /\ import(res.ret.val) = Ok(Truncated(Self))

\* An export that failed on a list add_custom_ikm built.
C13_ExportFails ==
    /\ res.op = "export"
    /\ ~res.ret.ok
    /\ Len(ikm_lst) > 0

\* str::starts_with
StartsWith(text, prefix) ==
    Len(text) >= Len(prefix) /\ SubSeq(text, 1, Len(prefix)) = prefix

SetterField ==
    [set_early_enc |-> "early_enc", set_expired_enc |-> "expired_enc",
     set_expired_now |-> "expired_now", set_future_enc |-> "future_enc",
     set_revoked |-> "revoked"]

\* C15: the default policy warns on a revoked and on a now expired IKM and
\* denies an IKM expired at encryption, an early and a future encryption;
\* each setter gives the action to its own condition and leaves the four
\* others as they were.
C15_DefaultsAndSetters ==
    /\ decryption_policy =
            [revoked |-> Warn, expired_now |-> Warn, expired_enc |-> Deny,
             early_enc |-> Deny, future_enc |-> Deny]
    /\ [][ res'.op \in DOMAIN SetterField =>
            /\ decryption_policy'[SetterField[res'.op]] = res'.arg
            /\ \A f \in DOMAIN decryption_policy \ { SetterField[res'.op] } :
                    decryption_policy'[f] = decryption_policy[f] ]_vars

\* set_revoked(Allow) on a policy no setter had left as the default one:
\* the other conditions keep what the earlier setters gave them.
C15_SetOnChangedPolicy ==
    /\ res.op = "set_revoked"
    /\ res.arg = Allow
    /\ decryption_policy =
            [revoked |-> Allow, expired_now |-> Deny, expired_enc |-> Warn,
             early_enc |-> Allow, future_enc |-> Deny]

\* The conditions of the policy in the order of their evaluation: the field
\* of the policy and the error of each.
ConditionOrder ==
    << [field |-> "revoked", err |-> "PolicyDecryptionRevoked"],
       [field |-> "expired_now", err |-> "PolicyDecryptionExpiredNow"],
       [field |-> "expired_enc", err |-> "PolicyDecryptionExpiredEnc"],
       [field |-> "early_enc", err |-> "PolicyDecryptionEarly"],
       [field |-> "future_enc", err |-> "PolicyDecryptionFuture"] >>

\* Whether a condition holds for the arguments of a check: the three last
\* ones need a time period and a periodicity, and compare the time period
\* with the period of an instant.
ConditionHolds(field, call) ==
    LET timed == IsSome(call.time_period) /\ is_periodic(call.key_ctx)
        PeriodOf(instant) ==
            (instant \div TicksPerSec) \div call.key_ctx.periodicity[1]
    IN  CASE field = "revoked" -> call.ikm.is_revoked
          [] field = "expired_now" -> call.curr_time > call.ikm.not_after
          [] field = "expired_enc" ->
                timed /\ call.time_period[1] > PeriodOf(call.ikm.not_after)
          [] field = "early_enc" ->
                timed /\ call.time_period[1] < PeriodOf(call.ikm.not_before)
          [] field = "future_enc" ->
                timed /\ call.time_period[1] > PeriodOf(call.curr_time)

\* The conditions that hold for the arguments of a check and that the policy
\* gives an action to, by their place in the order.
HoldingWith(action, call, policy) ==
    { i \in 1..Len(ConditionOrder) :
        /\ ConditionHolds(ConditionOrder[i].field, call)
        /\ policy[ConditionOrder[i].field] = action }

\* The least element of a non-empty set of places.
First(places) == CHOOSE i \in places : \A j \in places : i <= j

\* No instant of the check is before the epoch.
AfterEpoch(call) ==
    /\ call.ikm.not_before >= UNIX_EPOCH
    /\ call.ikm.not_after >= UNIX_EPOCH
    /\ call.curr_time >= UNIX_EPOCH

\* C16: the check returns the error of the first condition, in the order
\* revoked, expired now, expired at encryption, early encryption, future
\* encryption, that holds and that the policy denies, the conditions after
\* it giving no warning; it succeeds exactly when no condition that holds is
\* denied.
C16_FirstDenyWins ==
    res.op = "check" =>
        LET denied == HoldingWith(Deny, res.arg, decryption_policy)
            warned == HoldingWith(Warn, res.arg, decryption_policy)
        IN  /\ res.ret.ok <=> denied = {}
            /\ denied # {} =>
                /\ res.ret = Err(ConditionOrder[First(denied)].err, << >>)
                /\ \A i \in 1..Len(warn_log) :
                    \E j \in warned :
                        /\ j < First(denied)
                        /\ warn_log[i] = ConditionOrder[j].err

\* A check, at an instant after the epoch, of an IKM whose window starts
\* before the epoch: no condition is denied and the check does not succeed.
C16_NoDenyNoSuccess ==
    /\ res.op = "check"
    /\ res.arg.curr_time >= UNIX_EPOCH
    /\ ~AfterEpoch(res.arg)
    /\ HoldingWith(Deny, res.arg, decryption_policy) = {}
    /\ ~res.ret.ok

\* The arguments Check draws for process_check.
CheckCalls ==
    [ikm : PolicyIkms, key_ctx : PolicyKeyContexts,
     time_period : PolicyTimePeriods, curr_time : PolicyTimes]

\* process_check of a policy on these arguments.
CheckOf(policy, call) ==
    process_check(policy, call.ikm, call.key_ctx, call.time_period,
                  call.curr_time).ret

\* There are arguments for which the policy denies with the error of the
\* i-th condition, and succeeds once it gives Allow to that condition.
DeniedThenAllowed(policy, i) ==
    \E call \in CheckCalls :
        /\ CheckOf(policy, call) = Err(ConditionOrder[i].err, << >>)
        /\ CheckOf([policy EXCEPT ![ConditionOrder[i].field] = Allow], call)
                = Ok(<< >>)

\* This is so with the default policy for each of the five conditions.
DefaultDeniesEach ==
    \A i \in 1..Len(ConditionOrder) : DeniedThenAllowed(DefaultPolicy, i)

\* This is so with the default policy for each condition it denies; the
\* default policy never gives the error of another condition, and gives it
\* once that condition is set to Deny.
DefaultDeniesWhereDeny ==
    \A i \in 1..Len(ConditionOrder) :
        IF DefaultPolicy[ConditionOrder[i].field] = Deny
            THEN DeniedThenAllowed(DefaultPolicy, i)
        ELSE /\ \A call \in CheckCalls :
                    CheckOf(DefaultPolicy, call) # Err(ConditionOrder[i].err, << >>)
             /\ DeniedThenAllowed(
                    [DefaultPolicy EXCEPT ![ConditionOrder[i].field] = Deny], i)

\* C17 as stated: for each of the five conditions there are an IKM, a key
\* context, a time period and an instant for which the default policy denies
\* with the error of that condition, and for which the check succeeds once
\* the action of that condition is Allow.
C17_DefaultDeniesEach == res.op \in { "new", "check" } => DefaultDeniesEach

\* C17, amended: this is so for the three conditions the default policy
\* denies (expired at encryption, early encryption, future encryption); for
\* a revoked and for a now expired IKM the default policy never denies, and
\* a policy denies with their error once set_revoked(Deny) or
\* set_expired_now(Deny) was called, and succeeds with Allow.  No check is
\* denied with the error of a condition whose action is not Deny.
C17_DeniedWhereDeny ==
    /\ DefaultDeniesWhereDeny
    /\ res.op = "check" =>
            \A i \in 1..Len(ConditionOrder) :
                res.ret = Err(ConditionOrder[i].err, << >>)
                    => decryption_policy[ConditionOrder[i].field] = Deny

\* A check denied for a revoked IKM after set_revoked(Deny), on arguments
\* for which the default policy succeeds.
C17_RevokedDeniedOnceSet ==
    /\ res.op = "check"
    /\ decryption_policy = [DefaultPolicy EXCEPT !.revoked = Deny]
    /\ res.ret = Err("PolicyDecryptionRevoked", << >>)
    /\ CheckOf(DefaultPolicy, res.arg) = Ok(<< >>)

\* The errors of the conditions of the given places, in the order of the
\* evaluation.
ErrorsOf(places) ==
    LET kept == SelectSeq([i \in 1..Len(ConditionOrder) |-> i],
                          LAMBDA i : i \in places)
    IN  [k \in 1..Len(kept) |-> ConditionOrder[kept[k]].err]

\* C18: a condition that holds with the action Allow gives no warning; one
\* that holds with the action Warn gives exactly one warning, with its own
\* error, and the evaluation goes on, up to the first denied condition; a
\* check where a single Warn condition holds and none is denied gives a
\* single warning and succeeds.
C18_WarnAndGoOn ==
    res.op = "check" =>
        LET denied == HoldingWith(Deny, res.arg, decryption_policy)
            warned == HoldingWith(Warn, res.arg, decryption_policy)
            evaluated == IF denied = {} THEN warned
                         ELSE { i \in warned : i < First(denied) }
        IN  /\ warn_log = ErrorsOf(evaluated)
            /\ (Cardinality(warned) = 1 /\ denied = {}) =>
                    (Len(warn_log) = 1 /\ res.ret.ok)

\* A check of a now expired IKM with the default policy: the only condition
\* that holds is warned, none is denied, and the check does not succeed.
C18_WarnedNoSuccess ==
    /\ res.op = "check"
    /\ decryption_policy = DefaultPolicy
    /\ res.arg.curr_time >= UNIX_EPOCH
    /\ HoldingWith(Warn, res.arg, decryption_policy) = { 2 }
    /\ HoldingWith(Deny, res.arg, decryption_policy) = {}
    /\ warn_log = << "PolicyDecryptionExpiredNow" >>
    /\ ~res.ret.ok

\* The bytes are a run of consecutive elements of the sequence.
Contains(seq, bytes) ==
    \E i \in 1..(Len(seq) - Len(bytes) + 1) :
        SubSeq(seq, i, i + Len(bytes) - 1) = bytes

\* The seeds of the IKMs of the program: those of its list and those of the
\* lists whose texts it has stored.
Seeds ==
    { ikm_lst[i].content : i \in 1..Len(ikm_lst) }
    \cup UNION { { ImportedLists[l].ikm_lst[i].content
                    : i \in 1..Len(ImportedLists[l].ikm_lst) }
                 : l \in 1..Len(ImportedLists) }

\* C19: no error an operation returns carries the seed bytes of an IKM,
\* whatever the text given, a list text whose first part is an encoded IKM
\* record included.
C19_NoSeedInError ==
    ~res.ret.ok => \A seed \in Seeds : ~Contains(res.ret.args, seed)

\* import of a stored list text that has lost its counter part: the error
\* carries the record of the first IKM, its seed included.
C19_SeedInImportError ==
    /\ res.op = "import"
    /\ res.arg = NoIdText
    /\ res.ret.kind = "ParsingEncodedDataInvalidIkmListId"
    /\ res.ret.args = as_bytes(ImportedLists[1].ikm_lst[1]).val
    /\ Contains(res.ret.args, ImportedLists[1].ikm_lst[1].content)

\* The window of every record of the sequence ends at or after its start.
WindowsOrdered(ikms) ==
    \A i \in 1..Len(ikms) : ikms[i].not_before <= ikms[i].not_after

\* C20: every record of every list add_ikm, add_custom_ikm or import gives
\* has not_before <= not_after.
C20_WindowOrdered ==
    /\ WindowsOrdered(ikm_lst)
    /\ (res.op = "import" /\ res.ret.ok) => WindowsOrdered(res.ret.val.ikm_lst)

\* add_custom_ikm has added a record whose window ends before it starts.
C20_InvertedWindowAdded ==
    /\ res.op = "add_custom_ikm"
    /\ res.ret.ok
    /\ res.arg[2] > res.arg[3]
    /\ ikm_lst[Len(ikm_lst)].not_before > ikm_lst[Len(ikm_lst)].not_after

\* C21: decode_cipher of the text encode_cipher gives for an id, a non-empty
\* nonce, a non-empty ciphertext and an optional time period returns these
\* four values; encode_cipher of the values decode_cipher returns for a text
\* it accepts gives that text.
C21_CodecRoundTrip ==
    /\ res.op = "encode_cipher" => decode_cipher(res.ret.val) = Ok(res.arg)
    /\ (res.op = "decode_cipher" /\ res.ret.ok) =>
            encode_cipher(res.ret.val.id, res.ret.val.encrypted_data,
                          res.ret.val.time_period) = res.arg

\* A text of four parts that decode_cipher accepts: the fourth is the time
\* period 1, the nonce and the ciphertext have one byte.
C21_FourPartsDecoded ==
    /\ res.op = "decode_cipher"
    /\ res.ret = Ok([id |-> 1,
                     encrypted_data |->
                        [nonce |-> << 1 >>, ciphertext |-> << 1 >>],
                     time_period |-> Some(1)])

\* The places of the records of the list that have the id.
PlacesOf(id) == { k \in 1..Len(ikm_lst) : ikm_lst[k].id = id }

\* C22: revoke_ikm(id) on a list that holds the id returns the id and sets
\* is_revoked on that record; the length, the order, the other records, the
\* other fields of the record and id_counter stay as they were, and the list
\* stays as it was when the record was revoked already; without such a record
\* it returns IkmNotFound(id) and the list stays as it was.
C22_RevokeFrame ==
    [][ (res'.op = "revoke_ikm" /\ now' = now) =>
            /\ id_counter' = id_counter
            /\ IF PlacesOf(res'.arg[1]) = { }
                   THEN /\ res'.ret = Err("IkmNotFound", << res'.arg[1] >>)
                        /\ ikm_lst' = ikm_lst
               ELSE /\ res'.ret = Ok(res'.arg[1])
                    /\ \E k \in PlacesOf(res'.arg[1]) :
                            ikm_lst' = [ikm_lst EXCEPT ![k].is_revoked = TRUE]
                    /\ (\A k \in PlacesOf(res'.arg[1]) : ikm_lst[k].is_revoked)
                            => ikm_lst' = ikm_lst ]_vars

\* revoke_ikm has succeeded on the first of two records: the second is not
\* revoked and the counter is the one the two add_ikm left.
C22_RevokedTwice ==
    /\ res.op = "revoke_ikm"
    /\ res.ret.ok
    /\ Len(ikm_lst) = 2
    /\ res.arg[1] = ikm_lst[1].id
    /\ ikm_lst[1].is_revoked
    /\ ~ikm_lst[2].is_revoked
    /\ id_counter = 2

\* C23: delete_ikm(id) on a list that holds the id returns the id and removes
\* the record of that id; the other records stay as they were and in their
\* order, and id_counter stays as it was; without such a record it returns
\* IkmNotFound(id) and the list and id_counter stay as they were, as does
\* a second delete_ikm(id) after one that succeeded.
C23_DeleteFrame ==
    [][ (res'.op = "delete_ikm" /\ now' = now) =>
            /\ id_counter' = id_counter
            /\ ikm_lst' = SelectSeq(ikm_lst, LAMBDA ikm : ikm.id # res'.arg[1])
            /\ \A k \in 1..Len(ikm_lst') : ikm_lst'[k].id # res'.arg[1]
            /\ IF PlacesOf(res'.arg[1]) = { }
                   THEN /\ res'.ret = Err("IkmNotFound", << res'.arg[1] >>)
                        /\ ikm_lst' = ikm_lst
               ELSE /\ res'.ret = Ok(res'.arg[1])
                    /\ Len(ikm_lst') < Len(ikm_lst)
            /\ (res.op = "delete_ikm" /\ res.arg = res'.arg) =>
                    res'.ret = Err("IkmNotFound", << res'.arg[1] >>) ]_vars

\* The second delete_ikm of the id of the first of two records: it fails, the
\* other record and the counter are still there.
C23_DeletedTwice ==
    /\ res.op = "delete_ikm"
    /\ res.ret = Err("IkmNotFound", << 1 >>)
    /\ Len(ikm_lst) = 1
    /\ ikm_lst[1].id = 2
    /\ id_counter = 2

\* The first rule a decoded record breaks, as a sequence of at most one
\* error: fewer than 25 bytes, an unknown scheme tag, a length other than 25
\* and the size of the IKM of the scheme, a not_before and then a not_after
\* beyond the seconds of an i64.
RecordRuleBroken(b) ==
    IF Len(b) < 25
        THEN << Err("ParsingEncodedDataInvalidIkmLen", << Len(b) >>) >>
    ELSE IF FromLeBytes(SubSeq(b, 5, 8)) \notin { 1, 2 }
        THEN << Err("ParsingSchemeUnknownScheme", << FromLeBytes(SubSeq(b, 5, 8)) >>) >>
    ELSE IF Len(b) # 25 + 32
        THEN << Err("ParsingEncodedDataInvalidIkmLen", << Len(b) >>) >>
    ELSE IF b[48] >= 128 THEN << Err("SystemTimeReprError", SubSeq(b, 41, 48)) >>
    ELSE IF b[56] >= 128 THEN << Err("SystemTimeReprError", SubSeq(b, 49, 56)) >>
    ELSE << >>

\* The first rule a list text breaks, its parts taken in order, as a sequence
\* of at most one error; a part outside base64 gives the error of base64.
RECURSIVE PartRuleBroken(_, _)
PartRuleBroken(parts, k) ==
    IF k > Len(parts) THEN << >>
    ELSE IF ~B64Decode(parts[k]).ok THEN << B64Decode(parts[k]) >>
    ELSE IF k = 1
        THEN IF Len(B64Decode(parts[1]).val) # 4
                 THEN << Err("ParsingEncodedDataInvalidIkmListId",
                             B64Decode(parts[1]).val) >>
             ELSE PartRuleBroken(parts, 2)
    ELSE IF RecordRuleBroken(B64Decode(parts[k]).val) # << >>
        THEN RecordRuleBroken(B64Decode(parts[k]).val)
    ELSE PartRuleBroken(parts, k + 1)

IkmlRuleBroken(text) ==
    IF ~StartsWith(text, IKML_V1)
        THEN << Err("ParsingEncodedDataInvalidIkmlVersion", << >>) >>
    ELSE PartRuleBroken(Split(SubSeq(text, Len(IKML_V1) + 1, Len(text))), 1)

\* C24: decode_ikm_list returns the error of the first rule the text breaks,
\* in the order: the prefix "ikml-v1:", the number of parts, a counter part
\* of 4 bytes, then for each record part in order at least 25 bytes, a known
\* scheme tag, 25 bytes and the size of the IKM of the scheme, and
\* timestamps a system time can hold; it returns a list only when no rule is
\* broken.
C24_FirstBrokenRule ==
    res.op = "decode_ikm_list" =>
        IF IkmlRuleBroken(res.arg) = << >> THEN res.ret.ok
        ELSE res.ret = IkmlRuleBroken(res.arg)[1]

\* Every counter part that does not decode to exactly 4 bytes gives
\* ParsingEncodedDataInvalidIkmListId, a part outside base64 included.
C24_CounterNotFourBytes ==
    (/\ res.op = "decode_ikm_list"
     /\ StartsWith(res.arg, IKML_V1)
     /\ LET counter ==
                B64Decode(Split(SubSeq(res.arg, Len(IKML_V1) + 1, Len(res.arg)))[1])
        IN  ~(counter.ok /\ Len(counter.val) = 4))
        => (~res.ret.ok /\ res.ret.kind = "ParsingEncodedDataInvalidIkmListId")

\* A text whose first record has an unknown scheme tag and a byte too few,
\* and whose second record is outside base64: the error is the one of the
\* scheme tag.
C24_SchemeBeforeLength ==
    /\ res.op = "decode_ikm_list"
    /\ res.ret = Err("ParsingSchemeUnknownScheme", << 9 >>)
    /\ LET parts == Split(res.arg)
       IN  /\ Len(parts) = 4
           /\ Len(B64Decode(parts[3]).val) = 56
           /\ ~B64Decode(parts[4]).ok

\* The steps of the decoding of a token, in the order of the rules: the
\* prefix, the number of parts and the time period, the id, the nonce and
\* its emptiness, then the ciphertext and its emptiness.  A part outside
\* base64 fails the step that decodes it.
TokenSteps(text) ==
    IF ~StartsWith(text, ENC_V1)
        THEN Err("ParsingEncodedDataInvalidEncVersion", << >>)
    ELSE
        LET parts == Split(SubSeq(text, Len(ENC_V1) + 1, Len(text)))
            period == decode_data(parts[Len(parts)])
            id == decode_data(parts[1])
            nonce == decode_data(parts[2])
            ciphertext == decode_data(parts[3])
        IN  IF Len(parts) = 4 /\ ~period.ok THEN period
            ELSE IF Len(parts) = 4 /\ Len(period.val) # 8
                THEN Err("ParsingEncodedDataInvalidTimestamp", period.val)
            ELSE IF Len(parts) \notin { 3, 4 }
                THEN Err("ParsingEncodedDataInvalidPartLen", << 3, Len(parts) >>)
            ELSE IF ~id.ok THEN id
            ELSE IF Len(id.val) # 4
                THEN Err("ParsingEncodedDataInvalidIkmId", id.val)
            ELSE IF ~nonce.ok THEN nonce
            ELSE IF nonce.val = << >>
                THEN Err("ParsingEncodedDataEmptyNonce", << >>)
            ELSE IF ~ciphertext.ok THEN ciphertext
            ELSE IF ciphertext.val = << >>
                THEN Err("ParsingEncodedDataEmptyCiphertext", << >>)
            ELSE Ok([id |-> FromLeBytes(id.val),
                     encrypted_data |-> [nonce |-> nonce.val,
                                         ciphertext |-> ciphertext.val],
                     time_period |-> IF Len(parts) = 4
                                         THEN Some(FromLeBytes(period.val))
                                         ELSE None])

\* C25: decode_cipher returns the error of the first failing step, in the
\* order: the prefix "enc-v1:", a time period of 8 bytes when there are 4
\* parts, 3 parts otherwise, an id of 4 bytes, a non-empty nonce, a non-empty
\* ciphertext; a token with an empty nonce gives ParsingEncodedDataEmptyNonce
\* whatever its ciphertext part holds.
C25_FirstFailingStep ==
    res.op = "decode_cipher" => res.ret = TokenSteps(res.arg)

\* A token of three parts with an id of 4 bytes, an empty nonce and a
\* ciphertext part outside base64 has been given the error of base64.
C25_EmptyNonceBase64Error ==
    /\ res.op = "decode_cipher"
    /\ res.arg = ENC_V1 \o JoinParts(<< encode_data(ToLeBytes(1, 4)), << >>,
                                        << 65, 46 >> >>)
    /\ res.ret = Err("ParsingBase64Error", << >>)

\* The check has raised its i-th condition: it has returned its error, or
\* has logged it as a warning.
Raised(i) ==
    \/ res.ret = Err(ConditionOrder[i].err, << >>)
    \/ \E k \in 1..Len(warn_log) : warn_log[k] = ConditionOrder[i].err

\* What a check returns when only the revocation and the expiry at the
\* instant of the check count.
RevokedOrExpiredNow(call, policy) ==
    IF call.ikm.is_revoked /\ policy.revoked = Deny
        THEN Err("PolicyDecryptionRevoked", << >>)
    ELSE IF call.curr_time > call.ikm.not_after /\ policy.expired_now = Deny
        THEN Err("PolicyDecryptionExpiredNow", << >>)
    ELSE Ok(<< >>)

\* The check raises what the thresholds say.
PeriodThresholds ==
    LET denied == HoldingWith(Deny, res.arg, decryption_policy)
    IN  /\ \A i \in 3..5 :
            /\ Raised(i) => ConditionHolds(ConditionOrder[i].field, res.arg)
            /\ (/\ ConditionHolds(ConditionOrder[i].field, res.arg)
                /\ decryption_policy[ConditionOrder[i].field] # Allow
                /\ \A j \in denied : j >= i) => Raised(i)
        /\ (res.arg.time_period = None \/ ~is_periodic(res.arg.key_ctx)) =>
                res.ret = RevokedOrExpiredNow(res.arg, decryption_policy)

\* C26: with a time period tp and a periodicity P the check raises
\* ExpiredEnc exactly when tp > floor(not_after / P), Early exactly when
\* tp < floor(not_before / P) and Future exactly when tp > floor(now / P)
\* (an earlier denial apart); with no time period or a static key context
\* it raises none of them and its result is the one of the revocation and
\* of the expiry at the instant of the check, now > not_after.
C26_PeriodThresholds == res.op = "check" => PeriodThresholds

\* A check with a static key context and a time period, of an IKM whose
\* window starts before the epoch, has returned SystemTimeError.
C26_StaticSystemTimeError ==
    /\ res.op = "check"
    /\ ~is_periodic(res.arg.key_ctx)
    /\ IsSome(res.arg.time_period)
    /\ res.arg.ikm.not_before < UNIX_EPOCH
    /\ res.arg.curr_time >= UNIX_EPOCH
    /\ res.ret = Err("SystemTimeError", << >>)

\* The key contexts two more setters make of those a caller can build.
SetAgain ==
    KeyContexts
    \cup { set_static(kc) : kc \in KeyContexts }
    \cup { set_periodicity(kc, DEFAULT_KEY_CTX_PERIODICITY + 1) : kc \in KeyContexts }
    \cup { set_periodicity(set_static(kc), DEFAULT_KEY_CTX_PERIODICITY)
            : kc \in KeyContexts }
    \cup { set_static(set_periodicity(kc, DEFAULT_KEY_CTX_PERIODICITY + 1))
            : kc \in KeyContexts }

\* The time period of the token an encryption has returned is the quotient,
\* rounded down, of the whole seconds of its instant by the periodicity of
\* its key context, and is absent when the key context is static.
TokenPeriodIsQuotient ==
    (res.op \in { "encrypt", "encrypt_at" } /\ res.ret.ok) =>
        decode_cipher(res.ret.val).val.time_period
            = IF is_periodic(res.arg.key_ctx)
                  THEN Some((res.arg.at \div TicksPerSec)
                                \div res.arg.key_ctx.periodicity[1])
              ELSE None

\* C27: the periodicity of every key context From, set_static and
\* set_periodicity build is absent or strictly positive; the time period of
\* a token is floor(ts / periodicity) with a periodic key context and absent
\* with a static one; an encryption with a periodic key context at an
\* instant before the epoch returns SystemTimeError, and neither draws a
\* nonce nor makes a ciphertext nor keeps a token.
C27_TimePeriod ==
    /\ [](/\ \A kc \in SetAgain :
                kc.periodicity = None \/ kc.periodicity[1] > 0
          /\ TokenPeriodIsQuotient)
    /\ [][ (/\ res'.op \in { "encrypt", "encrypt_at" }
            /\ now' = now
            /\ is_periodic(res'.arg.key_ctx)
            /\ res'.arg.at < UNIX_EPOCH)
                => /\ res'.ret = Err("SystemTimeError", << >>)
                   /\ UNCHANGED << ikm_lst, id_counter, draws, sealed, enc >> ]_vars

\* encrypt_at with a key context of periodicity two has returned a token
\* for an instant in the second second: its time period is 0.
C27_SecondSecondPeriodZero ==
    /\ res.op = "encrypt_at"
    /\ res.ret.ok
    /\ res.arg.key_ctx.periodicity = Some(2)
    /\ res.arg.at \div TicksPerSec = 1
    /\ decode_cipher(res.ret.val).val.time_period = Some(0)

\* C28: a list import returns has pairwise distinct ids and an id_counter
\* that is at least each of them, so that an add on it returns an id no
\* record had, and get_ikm_by_id of that id returns the record added.
C28_ImportedIdsFresh ==
    /\ res.op = "new" =>
            /\ \A i, j \in 1..Len(ikm_lst) :
                    ikm_lst[i].id = ikm_lst[j].id => i = j
            /\ \A i \in 1..Len(ikm_lst) : id_counter >= ikm_lst[i].id
    /\ (res.op \in { "add_ikm", "add_custom_ikm" } /\ res.ret.ok) =>
            /\ PlacesOf(res.ret.val) = { Len(ikm_lst) }
            /\ get_ikm_by_id(Self, res.ret.val) = Ok(ikm_lst[Len(ikm_lst)])

\* add_ikm on the imported list whose record has the id 3 and whose counter
\* is 2 has returned 3, and get_ikm_by_id(3) returns the imported record.
C28_AddReturnsImportedId ==
    /\ res.op = "add_ikm"
    /\ res.ret = Ok(3)
    /\ Len(ikm_lst) = 2
    /\ ikm_lst[1] = ImportedLists[2].ikm_lst[1]
    /\ ikm_lst[2].id = 3
    /\ get_ikm_by_id(Self, 3) = Ok(ikm_lst[1])

\* What add_custom_ikm gives on the list of the state when the random source
\* fails, and what the next add gives then, with a random source that works,
\* next to what it gives on the list of the state.
FailedThenAdded(scheme, w, overflow_checks) ==
    LET failed == add_custom_ikm(Self, scheme, w[1], w[2],
                                 [ok |-> FALSE, k |-> draws], overflow_checks)
        after == add_custom_ikm(failed.lst, scheme, w[1], w[2],
                                [ok |-> TRUE, k |-> draws], overflow_checks)
        direct == add_custom_ikm(Self, scheme, w[1], w[2],
                                 [ok |-> TRUE, k |-> draws], overflow_checks)
    IN  /\ failed = [lst |-> Self, ret |-> Err("RandomSourceError", << >>)]
        /\ after = direct

\* C29: when the random source fails, add_ikm and add_custom_ikm return
\* RandomSourceError and leave the list as it was, no record added and
\* id_counter as before, so that the next add that succeeds returns the id
\* the failed one would have returned.
C29_RandomFailure ==
    /\ [](\A scheme \in Schemes, w \in CustomWindows, overflow_checks \in BOOLEAN :
            FailedThenAdded(scheme, w, overflow_checks))
    /\ [][ (/\ res'.op \in { "add_ikm", "add_custom_ikm" }
            /\ now' = now
            /\ res'.ret = Err("RandomSourceError", << >>))
                => UNCHANGED << ikm_lst, id_counter, draws >> ]_vars

\* add_ikm has failed on its random source on a list of one record.
C29_AddFailedOnRandom ==
    /\ res.op = "add_ikm"
    /\ res.ret = Err("RandomSourceError", << >>)
    /\ Len(ikm_lst) = 1
    /\ id_counter = 1

\* The check is the one of the token of the last encryption, made with a
\* periodic key context at an instant that is not after the clock.
HonestCheck ==
    /\ res.op = "check"
    /\ IsSome(enc)
    /\ is_periodic(enc[1].call.key_ctx)
    /\ enc[1].call.at <= now

\* C30: the check, with the same key context and at an instant t <= now, of
\* a token encrypt_at made at t with a periodic key context raises none of
\* ExpiredEnc, Early and Future, its time period being between the periods
\* of not_before and of not_after and at most the one of now; with the
\* default policy it succeeds, with warnings at most.
C30_HonestTokenAccepted ==
    HonestCheck =>
        /\ \A i \in 3..5 : ~ConditionHolds(ConditionOrder[i].field, res.arg)
        /\ \A i \in 3..5 : ~Raised(i)
        /\ decryption_policy = DefaultPolicy => res.ret.ok

\* The check of a token made after the epoch, under an IKM whose window
\* starts before the epoch, has returned SystemTimeError.
C30_HonestTokenSystemTimeError ==
    /\ HonestCheck
    /\ enc[1].call.at >= UNIX_EPOCH
    /\ res.arg.ikm.not_before < UNIX_EPOCH
    /\ decryption_policy = DefaultPolicy
    /\ res.ret = Err("SystemTimeError", << >>)

====
